---- MODULE Spec2Model ----
(***************************************************************************)
(* Model of r3dpixel/toolkit: the reqx coordinators and the scheduler.     *)
(*   - refreshableAuthStore (reqx/auth.go): double-checked single-flight   *)
(*     bearer-token refresh;                                               *)
(*   - interceptorStore and the retry hook that Client.IR installs:        *)
(*     generation-gated single-flight recovery;                            *)
(*   - the Client's registries and its builders AR and IR;                 *)
(*   - scheduler.Exec and scheduler.Pool (scheduler/scheduler.go).         *)
(* Each component has its own specification (AuthSpec, IcptSpec,           *)
(* ClientSpec, SchedSpec); HerdSpec and DenySpec run IcptSpec's requests   *)
(* against the servers of two tests, and RegistrySpec has the registries   *)
(* with several labels, one store per registration, each section under a   *)
(* lock as one step.  AuthLiveSpec is AuthSpec's callers under fair        *)
(* scheduling, BudgetSpec is DenySpec for every value MaxRetries may       *)
(* return, and CoordSpec has both coordinators of one client.              *)
(* The request engine (imroc/req) is modelled only                         *)
(* as far as the builders configure it: retry count, retry conditions,     *)
(* retry hook, response hook.                                              *)
(* Time is counted in minutes.  The zero time.Time{} is instant 0 and the  *)
(* wall clock starts at 1.                                                 *)
(***************************************************************************)
EXTENDS Integers, Naturals, Sequences, FiniteSets, TLC

(***************************************************************************)
(* Bounds of the model                                                     *)
(***************************************************************************)
NumCallers == 2
MaxTime == 2
MaxCalls == 2
NumRequests == 2
MaxMaxRetries == 2
MaxSends == 2
NumTasks == 2
MaxParallelism == 2
MaxStores == 2
MaxRegOps == 4

(***************************************************************************)
(* Program constants                                                       *)
(***************************************************************************)
defaultAuthRefreshBuffer == 2
defaultMaxRetries == 1

Callers == 1..NumCallers
Requests == 1..NumRequests
Tasks == 1..NumTasks
Workers == 1..MaxParallelism
ZeroTime == 0
StartTime == 1

VARIABLES
  clock,            \* time.Now()
  token,            \* refreshableAuthStore.token
  tokenExpiration,  \* refreshableAuthStore.tokenExpiration
  tokenMu,          \* refreshableAuthStore.tokenMu: the writer holding it, or 0
  refreshMu,        \* refreshableAuthStore.refreshMu: the holder, or 0
  apc,              \* position of each getValidToken caller
  now,              \* local `now` of each call
  pending,          \* local (token, err) being stored and returned
  ret,              \* what the last call of each caller returned, and how
  calls,            \* getValidToken calls started so far
  getCalls,         \* identityReader.Get invocations so far
  refreshCalls,     \* refreshTokenFunc invocations so far
  stats,            \* per caller, the external calls made by its current call
  herd              \* callers whose current call found the cache expired on the
                    \* fast path before any getValidToken call had returned

authVars == <<clock, token, tokenExpiration, tokenMu, refreshMu, apc, now,
              pending, ret, calls, getCalls, refreshCalls, stats, herd>>

VARIABLES
  interceptorMaxRetries, \* what Interceptor.MaxRetries() returns
  istate,           \* the Interceptor's own state: written by Recover, read by Apply
  generation,       \* interceptorStore.generation
  mu,               \* interceptorStore.mu: the writer (or 0) and the set of readers
  rq,               \* each request built by IR: position and locals
  recoverCalls,     \* Interceptor.Recover invocations so far
  recoverOks,       \* Interceptor.Recover invocations that returned nil so far
  lastFailed,       \* {g} if the last completed recover(g) call failed, else {}
  sends,            \* attempts sent so far, over all requests
  tornApply,        \* some Apply saw the state change or half-written
  skippedAfterFail  \* a recover call skipped right after a failed one at its baseline

icptVars == <<interceptorMaxRetries, istate, generation, mu, rq, recoverCalls,
              recoverOks, lastFailed, sends, tornApply, skippedAfterFail>>

VARIABLES
  auths,            \* Client.auths: which of Labels have an auth store
  interceptors      \* Client.interceptors: which of Labels have a store

clientVars == <<auths, interceptors>>

VARIABLES
  mode,             \* what runs on the scheduler: "exec", "pool", or "off"
  Parallelism,      \* Options.Parallelism
  cancelled,        \* the context: "never", or cancelled "before" or "during" the run
  closed,           \* the tasks channel has been closed
  wk,               \* each worker goroutine: position and the task in its handler
  feeder,           \* feedTasks inside Exec: position, SliceSource.idx, task in hand
  sub,              \* each task's Pool.Submit call: position, and whether the
                    \* context was cancelled when the call was made
  closer,           \* position of the Pool.Close call
  handled,          \* per task, the handler invocations made on it
  panicked          \* a goroutine panicked: the program is gone

schedVars == <<mode, Parallelism, cancelled, closed, wk, feeder, sub, closer,
               handled, panicked>>

VARIABLES
  authOf,           \* Client.auths on Services: the auth store of each label
  icptOf,           \* Client.interceptors on Services: the store of each label
  astore,           \* the auth stores made so far, by number
  istore,           \* the interceptorStores made so far, by number
  regs,             \* calls so far: stores made of each kind, deletions, AR/IR
  lastOp,           \* per registry and label, the last registry call on it
  usr               \* each goroutine using the client by label: position, locals

regVars == <<authOf, icptOf, astore, istore, regs, lastOp, usr>>

vars == <<authVars, icptVars, clientVars, schedVars, regVars>>

\* What the operations of one component leave alone
authOthers == <<icptVars, clientVars, schedVars, regVars>>
icptOthers == <<authVars, clientVars, schedVars, regVars>>
schedOthers == <<authVars, icptVars, clientVars, regVars>>
regOthers == <<authVars, icptVars, clientVars, schedVars>>

(***************************************************************************)
(* Tokens.  A token string is modelled by what the JWT parser can tell     *)
(* about it: blank, not parseable, parseable without an exp claim, or      *)
(* parseable with an exp claim.  serial tells the tokens apart (the        *)
(* refresh invocation that issued it).                                     *)
(***************************************************************************)
Tok(kind, exp, serial) == [kind |-> kind, exp |-> exp, serial |-> serial]
EmptyToken == Tok("blank", ZeroTime, 0)

\* Lifetimes of the tokens the refresh function may issue, from the time of issue
Lifetimes == {1, 2}

\* What refreshTokenFunc may return with a nil error at time t, as its k-th invocation
IssuedTokens(t, k) ==
  {Tok("jwt", t + d, k) : d \in Lifetimes}
    \cup {Tok("noexp", ZeroTime, k), Tok("malformed", ZeroTime, k)}

\* Mutant: a token without a decodable expiration is taken as never expiring
extractTokenExpiration_NeverExpires(tokenString) ==
  IF tokenString.kind = "jwt" THEN tokenString.exp
  ELSE MaxTime + defaultAuthRefreshBuffer

\* extractTokenExpiration (auth.go)
extractTokenExpiration(tokenString) ==
  IF tokenString.kind = "blank" THEN ZeroTime
  ELSE IF tokenString.kind = "malformed" THEN ZeroTime
  ELSE IF tokenString.kind = "noexp" THEN ZeroTime
  ELSE tokenString.exp

\* Mutant: the staleness test forgets the refresh buffer
isExpired_NoBuffer(expiration, t) == expiration < t

\* tokenExpiration.Before(t.Add(authRefreshBuffer))
isExpired(expiration, t) == expiration < t + defaultAuthRefreshBuffer

NoStats == [gets |-> 0, refreshes |-> 0, failed |-> "nil"]
\* seen is the latest refresh invocation among those whose tokens the caller's
\* earlier calls returned
NoRet == [token |-> EmptyToken, err |-> "none", path |-> "none", now |-> 0,
          seen |-> 0]

\* What the caller has seen once the call that ended with x is over
Seen(x) ==
  IF x.err = "nil" /\ x.token.serial > x.seen THEN x.token.serial ELSE x.seen

AuthInit ==
  /\ clock = StartTime
  /\ token = EmptyToken
  /\ tokenExpiration = ZeroTime
  /\ tokenMu = 0
  /\ refreshMu = 0
  /\ apc = [c \in Callers |-> "idle"]
  /\ now = [c \in Callers |-> 0]
  /\ pending = [c \in Callers |-> [token |-> EmptyToken, err |-> "nil"]]
  /\ ret = [c \in Callers |-> NoRet]
  /\ calls = 0
  /\ getCalls = 0
  /\ refreshCalls = 0
  /\ stats = [c \in Callers |-> NoStats]
  /\ herd = {}

\* getValidToken calls that have returned
callsReturned == calls - Cardinality({c \in Callers : apc[c] \notin {"idle", "done"}})

\* The wall clock advances
Tick ==
  /\ clock < MaxTime
  /\ clock' = clock + 1
  /\ UNCHANGED <<token, tokenExpiration, tokenMu, refreshMu, apc, now, pending,
                 ret, calls, getCalls, refreshCalls>>
  /\ UNCHANGED <<stats, herd>>
  /\ UNCHANGED authOthers

\* getValidToken entry: now := time.Now()
Call(c) ==
  /\ apc[c] \in {"idle", "done"}
  /\ calls < MaxCalls
  /\ calls' = calls + 1
  /\ now' = [now EXCEPT ![c] = clock]
  /\ ret' = [ret EXCEPT ![c] = [NoRet EXCEPT !.seen = Seen(ret[c])]]
  /\ apc' = [apc EXCEPT ![c] = "fast"]
  /\ UNCHANGED <<clock, token, tokenExpiration, tokenMu, refreshMu, pending,
                 getCalls, refreshCalls>>
  /\ stats' = [stats EXCEPT ![c] = NoStats]
  /\ herd' = herd \ {c}
  /\ UNCHANGED authOthers

\* Mutant: the fast path never returns the cached token
FastPath_AlwaysSlow(c) ==
  /\ apc[c] = "fast"
  /\ tokenMu = 0
  /\ apc' = [apc EXCEPT ![c] = "lock"]
  /\ UNCHANGED <<clock, token, tokenExpiration, tokenMu, refreshMu, now,
                 pending, ret, calls, getCalls, refreshCalls, stats, herd>>
  /\ UNCHANGED authOthers

\* getTokenAndCheckExpiryAt under tokenMu.RLock: the first check
FastPath(c) ==
  /\ apc[c] = "fast"
  /\ tokenMu = 0
  /\ IF ~isExpired(tokenExpiration, now[c])
       THEN /\ ret' = [ret EXCEPT ![c] = [token |-> token, err |-> "nil",
                                          path |-> "fast", now |-> now[c],
                                          seen |-> ret[c].seen]]
            /\ apc' = [apc EXCEPT ![c] = "done"]
       ELSE /\ apc' = [apc EXCEPT ![c] = "lock"]
            /\ UNCHANGED ret
  /\ herd' = IF isExpired(tokenExpiration, now[c]) /\ callsReturned = 0
              THEN herd \cup {c} ELSE herd
  /\ UNCHANGED <<clock, token, tokenExpiration, tokenMu, refreshMu, now,
                 pending, calls, getCalls, refreshCalls>>
  /\ UNCHANGED stats
  /\ UNCHANGED authOthers

\* Mutant: the refresh section is entered without waiting for refreshMu
LockRefresh_NoWait(c) ==
  /\ apc[c] = "lock"
  /\ refreshMu' = c
  /\ apc' = [apc EXCEPT ![c] = "recheck"]
  /\ UNCHANGED <<clock, token, tokenExpiration, tokenMu, now, pending, ret,
                 calls, getCalls, refreshCalls, stats, herd>>
  /\ UNCHANGED authOthers

\* as.refreshMu.Lock()
LockRefresh(c) ==
  /\ apc[c] = "lock"
  /\ refreshMu = 0
  /\ refreshMu' = c
  /\ apc' = [apc EXCEPT ![c] = "recheck"]
  /\ UNCHANGED <<clock, token, tokenExpiration, tokenMu, now, pending, ret,
                 calls, getCalls, refreshCalls>>
  /\ UNCHANGED <<stats, herd>>
  /\ UNCHANGED authOthers

\* Mutant: no second check under refreshMu
Recheck_NoRetest(c) ==
  /\ apc[c] = "recheck"
  /\ tokenMu = 0
  /\ apc' = [apc EXCEPT ![c] = "get"]
  /\ UNCHANGED <<clock, token, tokenExpiration, tokenMu, refreshMu, now,
                 pending, ret, calls, getCalls, refreshCalls, stats, herd>>
  /\ UNCHANGED authOthers

\* the second check, under refreshMu, with the same `now`
Recheck(c) ==
  /\ apc[c] = "recheck"
  /\ tokenMu = 0
  /\ IF ~isExpired(tokenExpiration, now[c])
       THEN /\ ret' = [ret EXCEPT ![c] = [token |-> token, err |-> "nil",
                                          path |-> "recheck", now |-> now[c],
                                          seen |-> ret[c].seen]]
            /\ apc' = [apc EXCEPT ![c] = "done"]
            /\ refreshMu' = 0
       ELSE /\ apc' = [apc EXCEPT ![c] = "get"]
            /\ UNCHANGED <<ret, refreshMu>>
  /\ UNCHANGED <<clock, token, tokenExpiration, tokenMu, now, pending, calls,
                 getCalls, refreshCalls>>
  /\ UNCHANGED <<stats, herd>>
  /\ UNCHANGED authOthers

\* as.identityReader.Get() is entered
GetBegin(c) ==
  /\ apc[c] = "get"
  /\ getCalls' = getCalls + 1
  /\ apc' = [apc EXCEPT ![c] = "inGet"]
  /\ UNCHANGED <<clock, token, tokenExpiration, tokenMu, refreshMu, now,
                 pending, ret, calls, refreshCalls>>
  /\ stats' = [stats EXCEPT ![c].gets = @ + 1]
  /\ UNCHANGED herd
  /\ UNCHANGED authOthers

\* as.identityReader.Get() returns an identity
GetOk(c) ==
  /\ apc[c] = "inGet"
  /\ apc' = [apc EXCEPT ![c] = "refresh"]
  /\ UNCHANGED <<clock, token, tokenExpiration, tokenMu, refreshMu, now,
                 pending, ret, calls, getCalls, refreshCalls>>
  /\ UNCHANGED <<stats, herd>>
  /\ UNCHANGED authOthers

\* Mutant: the error of identityReader.Get is ignored
GetErr_Ignored(c) ==
  /\ apc[c] = "inGet"
  /\ apc' = [apc EXCEPT ![c] = "refresh"]
  /\ stats' = [stats EXCEPT ![c].failed = "ErrCred"]
  /\ UNCHANGED <<clock, token, tokenExpiration, tokenMu, refreshMu, now,
                 pending, ret, calls, getCalls, refreshCalls, herd>>
  /\ UNCHANGED authOthers

\* as.identityReader.Get() returns an error: setBearerToken(""), return "", err
GetErr(c) ==
  /\ apc[c] = "inGet"
  /\ pending' = [pending EXCEPT ![c] = [token |-> EmptyToken, err |-> "ErrCred"]]
  /\ apc' = [apc EXCEPT ![c] = "setToken"]
  /\ UNCHANGED <<clock, token, tokenExpiration, tokenMu, refreshMu, now, ret,
                 calls, getCalls, refreshCalls>>
  /\ stats' = [stats EXCEPT ![c].failed = "ErrCred"]
  /\ UNCHANGED herd
  /\ UNCHANGED authOthers

\* as.refreshTokenFunc(as.client, identity) is entered
RefreshBegin(c) ==
  /\ apc[c] = "refresh"
  /\ refreshCalls' = refreshCalls + 1
  /\ apc' = [apc EXCEPT ![c] = "inRefresh"]
  /\ UNCHANGED <<clock, token, tokenExpiration, tokenMu, refreshMu, now,
                 pending, ret, calls, getCalls>>
  /\ stats' = [stats EXCEPT ![c].refreshes = @ + 1]
  /\ UNCHANGED herd
  /\ UNCHANGED authOthers

\* refreshTokenFunc returns a token: setBearerToken(newToken), return newToken, nil
RefreshOk(c) ==
  /\ apc[c] = "inRefresh"
  /\ \E t \in IssuedTokens(clock, refreshCalls) :
       pending' = [pending EXCEPT ![c] = [token |-> t, err |-> "nil"]]
  /\ apc' = [apc EXCEPT ![c] = "setToken"]
  /\ UNCHANGED <<clock, token, tokenExpiration, tokenMu, refreshMu, now, ret,
                 calls, getCalls, refreshCalls>>
  /\ UNCHANGED <<stats, herd>>
  /\ UNCHANGED authOthers

\* Mutant: a failed refresh returns the error without clearing the cache
RefreshErr_KeepsCache(c) ==
  /\ apc[c] = "inRefresh"
  /\ pending' = [pending EXCEPT ![c] = [token |-> EmptyToken, err |-> "ErrRefresh"]]
  /\ apc' = [apc EXCEPT ![c] = "return"]
  /\ stats' = [stats EXCEPT ![c].failed = "ErrRefresh"]
  /\ UNCHANGED <<clock, token, tokenExpiration, tokenMu, refreshMu, now, ret,
                 calls, getCalls, refreshCalls, herd>>
  /\ UNCHANGED authOthers

\* refreshTokenFunc returns an error: setBearerToken(""), return "", err
RefreshErr(c) ==
  /\ apc[c] = "inRefresh"
  /\ pending' = [pending EXCEPT ![c] = [token |-> EmptyToken, err |-> "ErrRefresh"]]
  /\ apc' = [apc EXCEPT ![c] = "setToken"]
  /\ UNCHANGED <<clock, token, tokenExpiration, tokenMu, refreshMu, now, ret,
                 calls, getCalls, refreshCalls>>
  /\ stats' = [stats EXCEPT ![c].failed = "ErrRefresh"]
  /\ UNCHANGED herd
  /\ UNCHANGED authOthers

\* Mutant: setBearerToken writes the token without holding tokenMu
SetToken_NoLock(c) ==
  /\ apc[c] = "setToken"
  /\ token' = pending[c].token
  /\ apc' = [apc EXCEPT ![c] = "setExpiration"]
  /\ UNCHANGED <<clock, tokenExpiration, tokenMu, refreshMu, now, pending, ret,
                 calls, getCalls, refreshCalls, stats, herd>>
  /\ UNCHANGED authOthers

\* setBearerToken: tokenMu.Lock(); as.token = token
SetToken(c) ==
  /\ apc[c] = "setToken"
  /\ tokenMu = 0
  /\ tokenMu' = c
  /\ token' = pending[c].token
  /\ apc' = [apc EXCEPT ![c] = "setExpiration"]
  /\ UNCHANGED <<clock, tokenExpiration, refreshMu, now, pending, ret, calls,
                 getCalls, refreshCalls>>
  /\ UNCHANGED <<stats, herd>>
  /\ UNCHANGED authOthers

\* setBearerToken: as.tokenExpiration = extractTokenExpiration(token); tokenMu.Unlock()
SetExpiration(c) ==
  /\ apc[c] = "setExpiration"
  /\ tokenMu = c
  /\ tokenExpiration' = extractTokenExpiration(token)
  /\ tokenMu' = 0
  /\ apc' = [apc EXCEPT ![c] = "return"]
  /\ UNCHANGED <<clock, token, refreshMu, now, pending, ret, calls, getCalls,
                 refreshCalls>>
  /\ UNCHANGED <<stats, herd>>
  /\ UNCHANGED authOthers

\* Mutant: the slow path returns without releasing refreshMu
Return_NoUnlock(c) ==
  /\ apc[c] = "return"
  /\ ret' = [ret EXCEPT ![c] = [token |-> pending[c].token, err |-> pending[c].err,
                                path |-> "refresh", now |-> now[c],
                                seen |-> ret[c].seen]]
  /\ apc' = [apc EXCEPT ![c] = "done"]
  /\ UNCHANGED <<clock, token, tokenExpiration, tokenMu, refreshMu, now, pending,
                 calls, getCalls, refreshCalls, stats, herd>>
  /\ UNCHANGED authOthers

\* return of the slow path; the deferred refreshMu.Unlock() runs
Return(c) ==
  /\ apc[c] = "return"
  /\ ret' = [ret EXCEPT ![c] = [token |-> pending[c].token, err |-> pending[c].err,
                                path |-> "refresh", now |-> now[c],
                                seen |-> ret[c].seen]]
  /\ refreshMu' = 0
  /\ apc' = [apc EXCEPT ![c] = "done"]
  /\ UNCHANGED <<clock, token, tokenExpiration, tokenMu, now, pending, calls,
                 getCalls, refreshCalls>>
  /\ UNCHANGED <<stats, herd>>
  /\ UNCHANGED authOthers

getValidToken(c) ==
  \/ Call(c)
  \/ FastPath(c)
  \/ LockRefresh(c)
  \/ Recheck(c)
  \/ GetBegin(c)
  \/ GetOk(c)
  \/ GetErr(c)
  \/ RefreshBegin(c)
  \/ RefreshOk(c)
  \/ RefreshErr(c)
  \/ SetToken(c)
  \/ SetExpiration(c)
  \/ Return(c)

AuthStep ==
  \/ Tick
  \/ \E c \in Callers : getValidToken(c)

(***************************************************************************)
(* interceptorStore and the requests built by Client.IR                    *)
(***************************************************************************)

\* sync.RWMutex as used through s.mu
FreeMu == [writer |-> 0, readers |-> {}]
CanRLock(m) == m.writer = 0
CanLock(m) == m.writer = 0 /\ m.readers = {}
RLock(m, r) == [m EXCEPT !.readers = @ \cup {r}]
RUnlock(m, r) == [m EXCEPT !.readers = @ \ {r}]
Lock(m, r) == [m EXCEPT !.writer = r]
Unlock(m, r) == [m EXCEPT !.writer = 0]

\* What the server may answer: whether ShouldIntercept accepts the attempt, and
\* whether responseErrorCause finds an error in it (the client-wide retry condition)
Responses == [intercept : BOOLEAN, cause : BOOLEAN]
NoResponse == [intercept |-> FALSE, cause |-> FALSE]

MaxRetriesChoices == {0, MaxMaxRetries}

CleanState == [ver |-> 0, dirty |-> FALSE]

\* responseErrorCause, as the client's OnAfterResponse callback applies it to
\* the response of an attempt: the error that attempt ends with
responseErrorCause(a) == IF a.cause THEN "ErrResponse" ELSE "nil"

\* recovers and applies count the Interceptor.Recover and Interceptor.Apply
\* calls made for the request, attempts the attempts sent; waited tells that
\* the hook's read of the generation had to wait for a writer of s.mu
NewRequest ==
  [pc |-> "start", initGen |-> 0, currentGen |-> 0, retryCount |-> 0,
   RetryAttempt |-> 0, resp |-> NoResponse, recoverErr |-> "nil",
   applySeen |-> CleanState, applied |-> 0, recovers |-> 0, applies |-> 0,
   waited |-> FALSE, attempts |-> 0, err |-> "nil",
   herdGen |-> -1, firstHook |-> "none", hookErr |-> "nil"]

\* How the hook of the request's first attempt ended, for a request whose first
\* attempt was intercepted (herdGen is then the baseline it was built with)
FirstHook(q, how) ==
  IF q.RetryAttempt = 1 /\ q.herdGen >= 0 THEN how ELSE q.firstHook

\* The request is over: the caller gets the last attempt's response and error
Finished(q) == [NewRequest EXCEPT !.pc = "done", !.resp = q.resp,
                                  !.RetryAttempt = q.RetryAttempt,
                                  !.retryCount = q.retryCount,
                                  !.recovers = q.recovers,
                                  !.attempts = q.attempts,
                                  !.recoverErr = q.recoverErr,
                                  !.herdGen = q.herdGen,
                                  !.firstHook = q.firstHook,
                                  !.err = responseErrorCause(q.resp)]

IcptInit ==
  /\ interceptorMaxRetries \in MaxRetriesChoices
  /\ istate = CleanState
  /\ generation = 0
  /\ mu = FreeMu
  /\ rq = [r \in Requests |-> NewRequest]
  /\ recoverCalls = 0
  /\ recoverOks = 0
  /\ lastFailed = {}
  /\ tornApply = FALSE
  /\ sends = 0
  /\ skippedAfterFail = FALSE

\* Mutant: maxRetries returns what Interceptor.MaxRetries returned
maxRetries_NoDefault(max) == max

\* interceptorStore.maxRetries
maxRetries(max) == IF max <= 0 THEN defaultMaxRetries ELSE max

\* Mutant: apply calls Interceptor.Apply without holding s.mu
ApplyBegin_NoRLock(r, at, to) ==
  /\ rq[r].pc = at
  /\ mu' = RLock(mu, r)
  /\ rq' = [rq EXCEPT ![r].pc = to, ![r].applySeen = istate,
                      ![r].applies = @ + 1]
  /\ UNCHANGED <<interceptorMaxRetries, istate, generation, recoverCalls,
                 recoverOks, lastFailed, sends, tornApply, skippedAfterFail>>
  /\ UNCHANGED icptOthers

\* interceptorStore.apply: s.mu.RLock(); s.interceptor.Apply is entered
ApplyBegin(r, at, to) ==
  /\ rq[r].pc = at
  /\ CanRLock(mu)
  /\ mu' = RLock(mu, r)
  /\ rq' = [rq EXCEPT ![r].pc = to, ![r].applySeen = istate,
                      ![r].applies = @ + 1]
  /\ UNCHANGED <<interceptorMaxRetries, istate, generation, recoverCalls,
                 recoverOks, lastFailed, sends, tornApply, skippedAfterFail>>
  /\ UNCHANGED icptOthers

\* interceptorStore.apply: s.interceptor.Apply returns; s.mu.RUnlock()
ApplyEnd(r, at, to) ==
  /\ rq[r].pc = at
  /\ mu' = RUnlock(mu, r)
  /\ tornApply' = (tornApply \/ istate # rq[r].applySeen \/ istate.dirty)
  /\ rq' = [rq EXCEPT ![r].pc = to, ![r].applied = istate.ver,
                      ![r].applySeen = CleanState]
  /\ UNCHANGED <<interceptorMaxRetries, istate, generation, recoverCalls,
                 recoverOks, lastFailed, sends, skippedAfterFail>>
  /\ UNCHANGED icptOthers

\* IR: r := store.apply(c.client.R())
IRApplyBegin(r) == ApplyBegin(r, "start", "irInApply")
IRApplyEnd(r) == ApplyEnd(r, "irInApply", "irMaxRetries")

\* Mutant: the retry count is set one too high
IRSetRetryCount_OffByOne(r) ==
  /\ rq[r].pc = "irMaxRetries"
  /\ CanRLock(mu)
  /\ rq' = [rq EXCEPT ![r].pc = "irGetGen",
                      ![r].retryCount = maxRetries(interceptorMaxRetries) + 1]
  /\ UNCHANGED <<interceptorMaxRetries, istate, generation, mu, recoverCalls,
                 recoverOks, lastFailed, sends, tornApply, skippedAfterFail>>
  /\ UNCHANGED icptOthers

\* IR: r.SetRetryCount(store.maxRetries())
IRSetRetryCount(r) ==
  /\ rq[r].pc = "irMaxRetries"
  /\ CanRLock(mu)
  /\ rq' = [rq EXCEPT ![r].pc = "irGetGen",
                      ![r].retryCount = maxRetries(interceptorMaxRetries)]
  /\ UNCHANGED <<interceptorMaxRetries, istate, generation, mu, recoverCalls,
                 recoverOks, lastFailed, sends, tornApply, skippedAfterFail>>
  /\ UNCHANGED icptOthers

\* IR: initGen := store.getGeneration()
IRGetGeneration(r) ==
  /\ rq[r].pc = "irGetGen"
  /\ CanRLock(mu)
  /\ rq' = [rq EXCEPT ![r].pc = "send", ![r].initGen = generation]
  /\ UNCHANGED <<interceptorMaxRetries, istate, generation, mu, recoverCalls,
                 recoverOks, lastFailed, sends, tornApply, skippedAfterFail>>
  /\ UNCHANGED icptOthers

\* The request engine sends one attempt and gets one of the answers the server
\* may give; with the retry budget used up (RetryAttempt >= MaxRetries) that
\* answer is final
Attempt(r, answers) ==
  /\ rq[r].pc = "send"
  /\ \E a \in answers :
       IF rq[r].RetryAttempt >= rq[r].retryCount
         THEN rq' = [rq EXCEPT ![r] = Finished([rq[r] EXCEPT !.resp = a,
                                                            !.attempts = @ + 1])]
         ELSE rq' = [rq EXCEPT ![r].pc = "sent", ![r].resp = a,
                               ![r].attempts = @ + 1,
                               ![r].recoverErr = "nil"]
  /\ UNCHANGED <<interceptorMaxRetries, istate, generation, mu, recoverCalls,
                 recoverOks, lastFailed, tornApply, skippedAfterFail>>
  /\ UNCHANGED icptOthers

\* An attempt against a server that may answer anything; the attempts of all
\* requests together are counted against MaxSends
Send(r) ==
  /\ sends < MaxSends
  /\ sends' = sends + 1
  /\ Attempt(r, Responses)

\* The retry conditions of the request: store.shouldIntercept (added by IR), then
\* the client-wide condition responseErrorCause(resp, err) != nil
needRetry(a) == a.intercept \/ a.cause

\* The request engine consults the retry conditions; on a retry the hook is run
EngineCondition(r) ==
  /\ rq[r].pc = "sent"
  /\ CanRLock(mu)
  /\ IF needRetry(rq[r].resp)
       THEN rq' = [rq EXCEPT ![r].pc = "hook", ![r].RetryAttempt = @ + 1,
                             ![r].herdGen =
                               IF rq[r].RetryAttempt = 0 /\ rq[r].resp.intercept
                                 THEN rq[r].initGen ELSE @]
       ELSE rq' = [rq EXCEPT ![r] = Finished(rq[r])]
  /\ UNCHANGED <<interceptorMaxRetries, istate, generation, mu, recoverCalls,
                 recoverOks, lastFailed, sends, tornApply, skippedAfterFail>>
  /\ UNCHANGED icptOthers

\* Mutant: the hook calls store.recover without comparing the generation it read
\* with the baseline
HookGetGeneration_NoCompare(r) ==
  /\ rq[r].pc = "hook"
  /\ CanRLock(mu)
  /\ rq' = [rq EXCEPT ![r].currentGen = generation, ![r].pc = "recover",
                      ![r].waited = FALSE]
  /\ UNCHANGED <<interceptorMaxRetries, istate, generation, mu, recoverCalls,
                 recoverOks, lastFailed, sends, tornApply, skippedAfterFail>>
  /\ UNCHANGED icptOthers

\* retry hook: currentGen := store.getGeneration(); if currentGen != initGen ...
HookGetGeneration(r) ==
  /\ rq[r].pc = "hook"
  /\ CanRLock(mu)
  /\ rq' = [rq EXCEPT ![r].currentGen = generation,
                      ![r].pc = IF generation # rq[r].initGen
                                  THEN "skipApply" ELSE "recover",
                      ![r].waited = IF generation # rq[r].initGen
                                      THEN @ ELSE FALSE]
  /\ UNCHANGED <<interceptorMaxRetries, istate, generation, mu, recoverCalls,
                 recoverOks, lastFailed, sends, tornApply, skippedAfterFail>>
  /\ UNCHANGED icptOthers

\* retry hook, generation changed: store.apply(r); initGen = currentGen; return
SkipApplyBegin(r) == ApplyBegin(r, "skipApply", "skipInApply")
SkipApplyEnd(r) ==
  /\ rq[r].pc = "skipInApply"
  /\ mu' = RUnlock(mu, r)
  /\ tornApply' = (tornApply \/ istate # rq[r].applySeen \/ istate.dirty)
  /\ rq' = [rq EXCEPT ![r].pc = "send", ![r].applied = istate.ver,
                      ![r].applySeen = CleanState,
                      ![r].initGen = rq[r].currentGen,
                      ![r].currentGen = 0, ![r].resp = NoResponse,
                      ![r].waited = FALSE,
                      ![r].firstHook = FirstHook(rq[r], "skipped")]
  /\ UNCHANGED <<interceptorMaxRetries, istate, generation, recoverCalls,
                 recoverOks, lastFailed, sends, skippedAfterFail>>
  /\ UNCHANGED icptOthers

\* Mutant: a skipped recover counts as a recovery
RecoverSkip_Increments(r) ==
  /\ rq[r].pc = "recover"
  /\ CanLock(mu)
  /\ generation # rq[r].currentGen
  /\ generation' = generation + 1
  /\ rq' = [rq EXCEPT ![r].pc = "recApply", ![r].recoverErr = "nil"]
  /\ skippedAfterFail' = (skippedAfterFail \/ rq[r].currentGen \in lastFailed)
  /\ lastFailed' = {}
  /\ UNCHANGED <<interceptorMaxRetries, istate, mu, recoverCalls, recoverOks,
                 sends, tornApply>>
  /\ UNCHANGED icptOthers

\* Mutant: recover does not re-test the generation under the lock
RecoverSkip_Recovers(r) ==
  /\ rq[r].pc = "recover"
  /\ CanLock(mu)
  /\ generation # rq[r].currentGen
  /\ mu' = Lock(mu, r)
  /\ istate' = [istate EXCEPT !.dirty = TRUE]
  /\ recoverCalls' = recoverCalls + 1
  /\ rq' = [rq EXCEPT ![r].pc = "inRecover", ![r].recovers = @ + 1]
  /\ UNCHANGED <<interceptorMaxRetries, generation, recoverOks, lastFailed,
                 sends, tornApply, skippedAfterFail>>
  /\ UNCHANGED icptOthers

\* interceptorStore.recover: s.mu.Lock(); s.generation != genBefore: return nil
RecoverSkip(r) ==
  /\ rq[r].pc = "recover"
  /\ CanLock(mu)
  /\ generation # rq[r].currentGen
  /\ rq' = [rq EXCEPT ![r].pc = "recApply", ![r].recoverErr = "nil"]
  /\ skippedAfterFail' =
       (skippedAfterFail \/ rq[r].currentGen \in lastFailed)
  /\ lastFailed' = {}
  /\ UNCHANGED <<interceptorMaxRetries, istate, generation, mu, recoverCalls,
                 recoverOks, sends, tornApply>>
  /\ UNCHANGED icptOthers

\* Mutant: recover calls Interceptor.Recover without waiting for s.mu
RecoverEnter_NoLock(r) ==
  /\ rq[r].pc = "recover"
  /\ generation = rq[r].currentGen
  /\ mu' = Lock(mu, r)
  /\ istate' = [istate EXCEPT !.dirty = TRUE]
  /\ recoverCalls' = recoverCalls + 1
  /\ rq' = [q \in Requests |->
             IF q = r
               THEN [rq[q] EXCEPT !.pc = "inRecover", !.recovers = @ + 1]
               ELSE IF rq[q].pc \in {"hook", "skipApply"}
                 THEN [rq[q] EXCEPT !.waited = TRUE]
                 ELSE rq[q]]
  /\ UNCHANGED <<interceptorMaxRetries, generation, recoverOks, lastFailed,
                 sends, tornApply, skippedAfterFail>>
  /\ UNCHANGED icptOthers

\* interceptorStore.recover: s.mu.Lock(); s.generation == genBefore:
\* s.interceptor.Recover is entered
RecoverEnter(r) ==
  /\ rq[r].pc = "recover"
  /\ CanLock(mu)
  /\ generation = rq[r].currentGen
  /\ mu' = Lock(mu, r)
  /\ istate' = [istate EXCEPT !.dirty = TRUE]
  /\ recoverCalls' = recoverCalls + 1
  /\ rq' = [q \in Requests |->
             IF q = r
               THEN [rq[q] EXCEPT !.pc = "inRecover", !.recovers = @ + 1]
               ELSE IF rq[q].pc \in {"hook", "skipApply"}
                 THEN [rq[q] EXCEPT !.waited = TRUE]
                 ELSE rq[q]]
  /\ UNCHANGED <<interceptorMaxRetries, generation, recoverOks, lastFailed,
                 sends, tornApply, skippedAfterFail>>
  /\ UNCHANGED icptOthers

\* Mutant: a successful Recover does not advance the generation
RecoverOk_NoIncrement(r) ==
  /\ rq[r].pc = "inRecover"
  /\ istate' = [ver |-> istate.ver + 1, dirty |-> FALSE]
  /\ recoverOks' = recoverOks + 1
  /\ mu' = Unlock(mu, r)
  /\ lastFailed' = {}
  /\ rq' = [rq EXCEPT ![r].pc = "recApply", ![r].recoverErr = "nil"]
  /\ UNCHANGED <<interceptorMaxRetries, generation, recoverCalls, sends,
                 tornApply, skippedAfterFail>>
  /\ UNCHANGED icptOthers

\* s.interceptor.Recover returns nil: s.generation++; s.mu.Unlock(); return nil
RecoverOk(r) ==
  /\ rq[r].pc = "inRecover"
  /\ istate' = [ver |-> istate.ver + 1, dirty |-> FALSE]
  /\ generation' = generation + 1
  /\ recoverOks' = recoverOks + 1
  /\ mu' = Unlock(mu, r)
  /\ lastFailed' = {}
  /\ rq' = [rq EXCEPT ![r].pc = "recApply", ![r].recoverErr = "nil"]
  /\ UNCHANGED <<interceptorMaxRetries, recoverCalls, sends, tornApply,
                 skippedAfterFail>>
  /\ UNCHANGED icptOthers

\* Mutant: generation is incremented whether or not Recover failed
RecoverErr_Increments(r) ==
  /\ rq[r].pc = "inRecover"
  /\ istate' = [istate EXCEPT !.dirty = FALSE]
  /\ generation' = generation + 1
  /\ mu' = Unlock(mu, r)
  /\ lastFailed' = {rq[r].currentGen}
  /\ rq' = [rq EXCEPT ![r].pc = "send", ![r].recoverErr = "ErrRecover",
                      ![r].currentGen = 0, ![r].resp = NoResponse,
                      ![r].firstHook = FirstHook(rq[r], "failed")]
  /\ UNCHANGED <<interceptorMaxRetries, recoverCalls, recoverOks, sends,
                 tornApply, skippedAfterFail>>
  /\ UNCHANGED icptOthers

\* Mutant: recover calls Interceptor.Recover again when it returned an error
RecoverErr_Retries(r) ==
  /\ rq[r].pc = "inRecover"
  /\ mu' = Unlock(mu, r)
  /\ rq' = [rq EXCEPT ![r].pc = "recover", ![r].recoverErr = "ErrRecover"]
  /\ UNCHANGED <<interceptorMaxRetries, istate, generation, recoverCalls,
                 recoverOks, lastFailed, sends, tornApply, skippedAfterFail>>
  /\ UNCHANGED icptOthers

\* s.interceptor.Recover returns an error: s.mu.Unlock(); return err.
\* The hook does nothing more: the engine sends the retry
RecoverErr(r) ==
  /\ rq[r].pc = "inRecover"
  /\ istate' = [istate EXCEPT !.dirty = FALSE]
  /\ mu' = Unlock(mu, r)
  /\ lastFailed' = {rq[r].currentGen}
  /\ rq' = [rq EXCEPT ![r].pc = "send", ![r].recoverErr = "ErrRecover",
                      ![r].currentGen = 0, ![r].resp = NoResponse,
                      ![r].firstHook = FirstHook(rq[r], "failed")]
  /\ UNCHANGED <<interceptorMaxRetries, generation, recoverCalls, recoverOks,
                 sends, tornApply, skippedAfterFail>>
  /\ UNCHANGED icptOthers

\* retry hook, recoverErr == nil: store.apply(r)
RecApplyBegin(r) == ApplyBegin(r, "recApply", "recInApply")
RecApplyEnd(r) == ApplyEnd(r, "recInApply", "recGetGen")

\* Mutant: after its own recovery the hook does not advance the baseline
RecGetGeneration_KeepsBaseline(r) ==
  /\ rq[r].pc = "recGetGen"
  /\ CanRLock(mu)
  /\ rq' = [rq EXCEPT ![r].pc = "send",
                      ![r].currentGen = 0, ![r].resp = NoResponse,
                      ![r].firstHook =
                        FirstHook(rq[r], IF rq[r].recovers = 0
                                           THEN "skipped" ELSE "recovered")]
  /\ UNCHANGED <<interceptorMaxRetries, istate, generation, mu, recoverCalls,
                 recoverOks, lastFailed, sends, tornApply, skippedAfterFail>>
  /\ UNCHANGED icptOthers

\* retry hook, recoverErr == nil: initGen = store.getGeneration(); return
RecGetGeneration(r) ==
  /\ rq[r].pc = "recGetGen"
  /\ CanRLock(mu)
  /\ rq' = [rq EXCEPT ![r].pc = "send", ![r].initGen = generation,
                      ![r].currentGen = 0, ![r].resp = NoResponse,
                      ![r].firstHook =
                        FirstHook(rq[r], IF rq[r].recovers = 0
                                           THEN "skipped" ELSE "recovered")]
  /\ UNCHANGED <<interceptorMaxRetries, istate, generation, mu, recoverCalls,
                 recoverOks, lastFailed, sends, tornApply, skippedAfterFail>>
  /\ UNCHANGED icptOthers

IR(r) ==
  \/ IRApplyBegin(r)
  \/ IRApplyEnd(r)
  \/ IRSetRetryCount(r)
  \/ IRGetGeneration(r)

RetryHook(r) ==
  \/ HookGetGeneration(r)
  \/ SkipApplyBegin(r)
  \/ SkipApplyEnd(r)
  \/ RecoverSkip(r)
  \/ RecoverEnter(r)
  \/ RecoverOk(r)
  \/ RecoverErr(r)
  \/ RecApplyBegin(r)
  \/ RecApplyEnd(r)
  \/ RecGetGeneration(r)

Engine(r) ==
  \/ Send(r)
  \/ EngineCondition(r)

IcptStep == \E r \in Requests : IR(r) \/ Engine(r) \/ RetryHook(r)

\* The server of the thundering-herd test: every attempt is answered with a
\* response that ShouldIntercept accepts until a recovery has succeeded, and
\* with a success afterwards
HerdAnswers ==
  IF recoverOks = 0
    THEN {a \in Responses : a.intercept}
    ELSE {a \in Responses : ~a.intercept /\ ~a.cause}

HerdSend(r) ==
  /\ Attempt(r, HerdAnswers)
  /\ UNCHANGED sends

\* The server of the max-retries test: every attempt is answered with the
\* failing response that ShouldIntercept accepts (403 Forbidden)
DenyAnswers == {a \in Responses : a.intercept /\ a.cause}

\* The attempts of all requests together are counted against what one request
\* with the largest retry budget needs
DenySend(r) ==
  /\ sends < MaxMaxRetries + 1
  /\ sends' = sends + 1
  /\ Attempt(r, DenyAnswers)

\* The retry hook over an Interceptor whose Recover never fails
RecoveringHook(r) ==
  \/ HookGetGeneration(r)
  \/ SkipApplyBegin(r)
  \/ SkipApplyEnd(r)
  \/ RecoverSkip(r)
  \/ RecoverEnter(r)
  \/ RecoverOk(r)
  \/ RecApplyBegin(r)
  \/ RecApplyEnd(r)
  \/ RecGetGeneration(r)

(***************************************************************************)
(* Client: the two registries and the builders AR and IR.  The model has   *)
(* one auth store and one interceptorStore, so one label at most is        *)
(* registered in each map.                                                 *)
(***************************************************************************)
Registered == "test"
Labels == {Registered, "non-existent"}

\* The client as NewClient returns it, or after RegisterAuth and
\* RegisterInterceptor have registered the label
ClientInit ==
  \E ls \in SUBSET {Registered} : auths = ls /\ interceptors = ls

\* fmt.Errorf("auth manager for service %s does not exist", serviceLabel)
ErrAuthNotExist(serviceLabel) ==
  "auth manager for service " \o serviceLabel \o " does not exist"

\* fmt.Errorf("interceptor %s does not exist", label)
ErrInterceptorNotExist(label) == "interceptor " \o label \o " does not exist"

\* Retry counts the client may have been configured with (Options.RetryCount)
RetryCounts == {0, 1}

\* What has happened to the client so far: getValidToken calls, requests
\* built, attempts sent and minutes passed; together they are counted against
\* MaxOps
Ops ==
  calls + Cardinality({r \in Requests : rq[r].pc # "start"}) + sends
    + (clock - StartTime)
MaxOps == MaxCalls

\* A minute passes
ClientTick ==
  /\ Ops < MaxOps
  /\ Tick

\* c.client.R(): the client's requests are numbered in the order in which the
\* builders make them
NextRequest(r) ==
  /\ rq[r].pc = "start"
  /\ \A q \in Requests : q < r => rq[q].pc # "start"

\* c.client.R().OnAfterResponse(func ... { return e }): a plain request of the
\* engine, with the client's retry count, whose hook fails every attempt
ErrorRequest(r, e) ==
  /\ NextRequest(r)
  /\ Ops < MaxOps
  /\ \E n \in RetryCounts :
       rq' = [rq EXCEPT ![r].pc = "lost", ![r].retryCount = n,
                        ![r].hookErr = e]
  /\ UNCHANGED <<interceptorMaxRetries, istate, generation, mu, recoverCalls,
                 recoverOks, lastFailed, sends, tornApply, skippedAfterFail>>
  /\ UNCHANGED icptOthers

\* Mutant: AR does not test exists and goes on to getValidToken
ARNotExists_Ignored(serviceLabel, r) ==
  /\ serviceLabel \notin auths
  /\ Ops < MaxOps
  /\ \E c \in Callers : Call(c)

\* AR: the auth manager does not exist
ARNotExists(serviceLabel, r) ==
  /\ serviceLabel \notin auths
  /\ ErrorRequest(r, ErrAuthNotExist(serviceLabel))

\* AR: the auth manager exists; authManager.getValidToken() is entered
ARGetValidToken(serviceLabel, c) ==
  /\ serviceLabel \in auths
  /\ Ops < MaxOps
  /\ Call(c)

\* IR: the interceptor does not exist
IRNotExists(label, r) ==
  /\ label \notin interceptors
  /\ ErrorRequest(r, ErrInterceptorNotExist(label))

\* IR: the interceptor exists; store.apply is entered
IRExists(label, r) ==
  /\ label \in interceptors
  /\ NextRequest(r)
  /\ Ops < MaxOps
  /\ IRApplyBegin(r)

\* The rest of getValidToken, after its entry
getValidTokenRest(c) ==
  \/ FastPath(c)
  \/ LockRefresh(c)
  \/ Recheck(c)
  \/ GetBegin(c)
  \/ GetOk(c)
  \/ GetErr(c)
  \/ RefreshBegin(c)
  \/ RefreshOk(c)
  \/ RefreshErr(c)
  \/ SetToken(c)
  \/ SetExpiration(c)
  \/ Return(c)

\* The rest of IR, after store.apply is entered
IRRest(r) ==
  \/ IRApplyEnd(r)
  \/ IRSetRetryCount(r)
  \/ IRGetGeneration(r)

\* An attempt of an error request: whatever the server answers, the request's
\* OnAfterResponse hook returns its error, which becomes the attempt's error;
\* the client's retry condition holds of it and no retry hook is installed, so
\* the engine sends again until the retry count is used up
ErrorRequestSend(r) ==
  /\ rq[r].pc = "lost"
  /\ Ops < MaxOps
  /\ sends' = sends + 1
  /\ IF rq[r].RetryAttempt >= rq[r].retryCount
       THEN rq' = [rq EXCEPT ![r] = [NewRequest EXCEPT
                                       !.pc = "done",
                                       !.retryCount = rq[r].retryCount,
                                       !.RetryAttempt = rq[r].RetryAttempt,
                                       !.attempts = rq[r].attempts + 1,
                                       !.hookErr = rq[r].hookErr,
                                       !.err = rq[r].hookErr]]
       ELSE rq' = [rq EXCEPT ![r].RetryAttempt = @ + 1, ![r].attempts = @ + 1]
  /\ UNCHANGED <<interceptorMaxRetries, istate, generation, mu, recoverCalls,
                 recoverOks, lastFailed, tornApply, skippedAfterFail>>
  /\ UNCHANGED icptOthers

\* The server of the unknown-label tests: every attempt is answered 200 OK, so
\* no retry condition holds of a request built by IR for a registered label
\* and its retry hook never runs
OkAnswers == {a \in Responses : ~a.intercept /\ ~a.cause}

OkSend(r) ==
  /\ Ops < MaxOps
  /\ sends' = sends + 1
  /\ Attempt(r, OkAnswers)

ClientStep ==
  \/ ClientTick
  \/ \E l \in Labels, c \in Callers : ARGetValidToken(l, c)
  \/ \E c \in Callers : getValidTokenRest(c)
  \/ \E l \in Labels, r \in Requests :
       ARNotExists(l, r) \/ IRNotExists(l, r) \/ IRExists(l, r)
  \/ \E r \in Requests :
       IRRest(r) \/ OkSend(r) \/ EngineCondition(r) \/ ErrorRequestSend(r)

(***************************************************************************)
(* scheduler: Exec and Pool over one unbuffered tasks channel.  A send and *)
(* the receive that takes it are one step; the worker that received a task *)
(* is in the handler from that step on.                                    *)
(***************************************************************************)
ParallelismChoices == {-1, 0} \cup Workers

\* parallelism := opts.Parallelism; if parallelism <= 0 { parallelism = 1 }
parallelism(n) == IF n <= 0 THEN 1 ELSE n

NoTask == 0
IdleWorker == [pc |-> "recv", task |-> NoTask]
NoWorker == [pc |-> "none", task |-> NoTask]
NoFeeder == [pc |-> "off", idx |-> 0, task |-> NoTask]
NoSubmit == [pc |-> "none", late |-> FALSE]

\* Mutant: one worker more than asked for is spawned
spawnWorkers_OneMore(n) ==
  [w \in Workers |-> IF w <= n + 1 THEN IdleWorker ELSE NoWorker]

\* spawnWorkers: n goroutines, each ranging over the tasks channel
spawnWorkers(n) == [w \in Workers |-> IF w <= n THEN IdleWorker ELSE NoWorker]

\* SliceSource.items: the tasks, in order
items == [i \in 1..NumTasks |-> i]

ctxDone == cancelled # "never"
running == {w \in Workers : wk[w].pc = "handling"}
spawned == {w \in Workers : wk[w].pc # "none"}

\* No scheduler in use
SchedOff ==
  /\ mode = "off"
  /\ Parallelism = 0
  /\ cancelled = "never"
  /\ closed = FALSE
  /\ wk = [w \in Workers |-> NoWorker]
  /\ feeder = NoFeeder
  /\ sub = [t \in Tasks |-> NoSubmit]
  /\ closer = "idle"
  /\ handled = [t \in Tasks |-> 0]
  /\ panicked = FALSE

\* Exec has spawned its workers and is about to feed them, or NewPool has
\* returned the pool; the context may have been cancelled before
SchedInit ==
  /\ mode \in {"exec", "pool"}
  /\ Parallelism \in ParallelismChoices
  /\ cancelled \in {"never", "before"}
  /\ closed = FALSE
  /\ wk = spawnWorkers(parallelism(Parallelism))
  /\ feeder = IF mode = "exec" THEN [NoFeeder EXCEPT !.pc = "next"] ELSE NoFeeder
  /\ sub = [t \in Tasks |-> NoSubmit]
  /\ closer = "idle"
  /\ handled = [t \in Tasks |-> 0]
  /\ panicked = FALSE

\* cancel() of the context
Cancel ==
  /\ ~panicked
  /\ cancelled = "never"
  /\ cancelled' = "during"
  /\ UNCHANGED <<mode, Parallelism, closed, wk, feeder, sub, closer, handled,
                 panicked>>
  /\ UNCHANGED schedOthers

\* A worker receives task t from the channel and calls handler(ctx, t)
Receive(w, t) ==
  /\ wk[w].pc = "recv"
  /\ ~closed
  /\ wk' = [wk EXCEPT ![w] = [pc |-> "handling", task |-> t]]
  /\ handled' = [handled EXCEPT ![t] = @ + 1]

\* feedTasks: task, ok := source.Next(ctx); SliceSource.Next does not look at
\* the context
FeedNext ==
  /\ ~panicked
  /\ feeder.pc = "next"
  /\ IF feeder.idx >= Len(items)
       THEN feeder' = [feeder EXCEPT !.pc = "close"]
       ELSE feeder' = [pc |-> "select", idx |-> feeder.idx + 1,
                       task |-> items[feeder.idx + 1]]
  /\ UNCHANGED <<mode, Parallelism, cancelled, closed, wk, sub, closer, handled,
                 panicked>>
  /\ UNCHANGED schedOthers

\* feedTasks: select case tasks <- task, taken by worker w
FeedSend(w) ==
  /\ ~panicked
  /\ feeder.pc = "select"
  /\ Receive(w, feeder.task)
  /\ feeder' = [feeder EXCEPT !.pc = "next", !.task = NoTask]
  /\ UNCHANGED <<mode, Parallelism, cancelled, closed, sub, closer, panicked>>
  /\ UNCHANGED schedOthers

\* feedTasks: select case <-ctx.Done(): return
FeedCancelled ==
  /\ ~panicked
  /\ feeder.pc = "select"
  /\ ctxDone
  /\ feeder' = [feeder EXCEPT !.pc = "close", !.task = NoTask]
  /\ UNCHANGED <<mode, Parallelism, cancelled, closed, wk, sub, closer, handled,
                 panicked>>
  /\ UNCHANGED schedOthers

\* feedTasks: the deferred close(tasks); Exec goes on to wg.Wait()
FeedClose ==
  /\ ~panicked
  /\ feeder.pc = "close"
  /\ closed' = TRUE
  /\ feeder' = [feeder EXCEPT !.pc = "wait"]
  /\ UNCHANGED <<mode, Parallelism, cancelled, wk, sub, closer, handled,
                 panicked>>
  /\ UNCHANGED schedOthers

\* Mutant: Exec returns without waiting for the workers
ExecReturn_NoWait ==
  /\ ~panicked
  /\ feeder.pc = "wait"
  /\ feeder' = [feeder EXCEPT !.pc = "returned"]
  /\ UNCHANGED <<mode, Parallelism, cancelled, closed, wk, sub, closer, handled,
                 panicked>>
  /\ UNCHANGED schedOthers

\* Exec: wg.Wait() returns once every worker has called wg.Done()
ExecReturn ==
  /\ ~panicked
  /\ feeder.pc = "wait"
  /\ \A w \in spawned : wk[w].pc = "exited"
  /\ feeder' = [feeder EXCEPT !.pc = "returned"]
  /\ UNCHANGED <<mode, Parallelism, cancelled, closed, wk, sub, closer, handled,
                 panicked>>
  /\ UNCHANGED schedOthers

\* worker: handler(ctx, task) returns
HandlerEnd(w) ==
  /\ ~panicked
  /\ wk[w].pc = "handling"
  /\ wk' = [wk EXCEPT ![w] = IdleWorker]
  /\ UNCHANGED <<mode, Parallelism, cancelled, closed, feeder, sub, closer,
                 handled, panicked>>
  /\ UNCHANGED schedOthers

\* worker: the range over the closed channel ends; the deferred wg.Done()
WorkerExit(w) ==
  /\ ~panicked
  /\ wk[w].pc = "recv"
  /\ closed
  /\ wk' = [wk EXCEPT ![w].pc = "exited"]
  /\ UNCHANGED <<mode, Parallelism, cancelled, closed, feeder, sub, closer,
                 handled, panicked>>
  /\ UNCHANGED schedOthers

\* Pool.Submit(t) is called and reaches its select
SubmitCall(t) ==
  /\ ~panicked
  /\ mode = "pool"
  /\ sub[t].pc = "none"
  /\ sub' = [sub EXCEPT ![t] = [pc |-> "select", late |-> ctxDone]]
  /\ UNCHANGED <<mode, Parallelism, cancelled, closed, wk, feeder, closer,
                 handled, panicked>>
  /\ UNCHANGED schedOthers

\* Submit: select case p.tasks <- task, taken by worker w: return true
SubmitSend(t, w) ==
  /\ ~panicked
  /\ sub[t].pc = "select"
  /\ Receive(w, t)
  /\ sub' = [sub EXCEPT ![t].pc = "true"]
  /\ UNCHANGED <<mode, Parallelism, cancelled, closed, feeder, closer, panicked>>
  /\ UNCHANGED schedOthers

\* Submit: select case <-p.ctx.Done(): return false
SubmitCancelled(t) ==
  /\ ~panicked
  /\ sub[t].pc = "select"
  /\ ctxDone
  /\ sub' = [sub EXCEPT ![t].pc = "false"]
  /\ UNCHANGED <<mode, Parallelism, cancelled, closed, wk, feeder, closer,
                 handled, panicked>>
  /\ UNCHANGED schedOthers

\* Submit: the send case on the closed channel panics
SubmitPanic(t) ==
  /\ ~panicked
  /\ sub[t].pc = "select"
  /\ closed
  /\ panicked' = TRUE
  /\ UNCHANGED <<mode, Parallelism, cancelled, closed, wk, feeder, sub, closer,
                 handled>>
  /\ UNCHANGED schedOthers

\* Pool.Close: close(p.tasks), then p.wg.Wait()
PoolClose ==
  /\ ~panicked
  /\ mode = "pool"
  /\ closer = "idle"
  /\ closed' = TRUE
  /\ closer' = "wait"
  /\ UNCHANGED <<mode, Parallelism, cancelled, wk, feeder, sub, handled,
                 panicked>>
  /\ UNCHANGED schedOthers

\* Mutant: Close returns without waiting for the workers
CloseReturn_NoWait ==
  /\ ~panicked
  /\ closer = "wait"
  /\ closer' = "returned"
  /\ UNCHANGED <<mode, Parallelism, cancelled, closed, wk, feeder, sub, handled,
                 panicked>>
  /\ UNCHANGED schedOthers

\* Pool.Close: p.wg.Wait() returns once every worker has called wg.Done()
CloseReturn ==
  /\ ~panicked
  /\ closer = "wait"
  /\ \A w \in spawned : wk[w].pc = "exited"
  /\ closer' = "returned"
  /\ UNCHANGED <<mode, Parallelism, cancelled, closed, wk, feeder, sub, handled,
                 panicked>>
  /\ UNCHANGED schedOthers

Exec ==
  \/ FeedNext
  \/ \E w \in Workers : FeedSend(w)
  \/ FeedCancelled
  \/ FeedClose
  \/ ExecReturn

Pool ==
  \/ \E t \in Tasks : SubmitCall(t)
  \/ \E t \in Tasks, w \in Workers : SubmitSend(t, w)
  \/ \E t \in Tasks : SubmitCancelled(t)
  \/ \E t \in Tasks : SubmitPanic(t)
  \/ PoolClose
  \/ CloseReturn

Worker(w) ==
  \/ HandlerEnd(w)
  \/ WorkerExit(w)

SchedStep ==
  \/ Exec
  \/ Pool
  \/ \E w \in Workers : Worker(w)
  \/ Cancel

(***************************************************************************)
(* The registries with several labels.  Every registration makes a new     *)
(* store; the stores are numbered in the order in which they are made.     *)
(* Each section under a lock is one step, except the refresh function and  *)
(* Interceptor.Recover, which are entered and left in two steps.           *)
(***************************************************************************)
Services == {"service1", "service2"}
StoreIds == 1..MaxStores
NoStore == 0

\* The token RegisterToken is called with when it makes store s
FixedToken(s) == Tok("fixed", ZeroTime, s)

\* What the refresh function of store s answers at time t: an error or a token
\* with an expiration claim
RefreshAnswers(s, t) == {x \in IssuedTokens(t, s) : x.kind = "jwt"}

\* newRefreshableAuthStore
NewRefreshableAuthStore ==
  [kind |-> "refreshable", token |-> EmptyToken, tokenExpiration |-> ZeroTime,
   refreshMu |-> 0]

\* newTokenAuthStore(token)
NewTokenAuthStore(t) == [NewRefreshableAuthStore EXCEPT !.kind = "token", !.token = t]

\* newInterceptorStore(interceptor), with an interceptor of its own
NewInterceptorStore ==
  [generation |-> 0, mu |-> FreeMu]

NoOp == "none"
NoUse ==
  [pc |-> "idle", op |-> "none", label |-> "none", obj |-> NoStore, gen |-> 0,
   tries |-> 0, token |-> EmptyToken, err |-> "none"]

\* Registry calls made so far; they are counted against MaxRegOps
RegOps == regs.auth + regs.icpt + regs.del + regs.use

\* NewClient: both maps empty
RegistryInit ==
  /\ authOf = [l \in Services |-> NoStore]
  /\ icptOf = [l \in Services |-> NoStore]
  /\ astore = [s \in StoreIds |-> NewRefreshableAuthStore]
  /\ istore = [s \in StoreIds |-> NewInterceptorStore]
  /\ regs = [auth |-> 0, icpt |-> 0, del |-> 0, use |-> 0]
  /\ lastOp = [auth |-> [l \in Services |-> NoOp], icpt |-> [l \in Services |-> NoOp]]
  /\ usr = [u \in Callers |-> NoUse]

\* No label of these is ever registered or used
RegistryOff == RegistryInit

\* c.auths[serviceLabel] = store, under authsMu.Lock
SetAuth(serviceLabel, store) ==
  /\ RegOps < MaxRegOps
  /\ regs.auth + regs.icpt < MaxStores
  /\ regs' = [regs EXCEPT !.auth = @ + 1]
  /\ astore' = [astore EXCEPT ![regs.auth + 1] = store]
  /\ authOf' = [authOf EXCEPT ![serviceLabel] = regs.auth + 1]
  /\ lastOp' = [lastOp EXCEPT !.auth[serviceLabel] = "reg"]
  /\ UNCHANGED <<icptOf, istore, usr>>
  /\ UNCHANGED regOthers

RegisterAuth(serviceLabel) == SetAuth(serviceLabel, NewRefreshableAuthStore)

RegisterToken(serviceLabel) ==
  SetAuth(serviceLabel, NewTokenAuthStore(FixedToken(regs.auth + 1)))

\* Mutant: UnregisterAuth empties the map
UnregisterAuth_All(serviceLabel) ==
  /\ RegOps < MaxRegOps
  /\ regs' = [regs EXCEPT !.del = @ + 1]
  /\ authOf' = [l \in Services |-> NoStore]
  /\ lastOp' = [lastOp EXCEPT !.auth[serviceLabel] = "unreg"]
  /\ UNCHANGED <<icptOf, astore, istore, usr>>
  /\ UNCHANGED regOthers

\* delete(c.auths, serviceLabel), under authsMu.Lock
UnregisterAuth(serviceLabel) ==
  /\ RegOps < MaxRegOps
  /\ regs' = [regs EXCEPT !.del = @ + 1]
  /\ authOf' = [authOf EXCEPT ![serviceLabel] = NoStore]
  /\ lastOp' = [lastOp EXCEPT !.auth[serviceLabel] = "unreg"]
  /\ UNCHANGED <<icptOf, astore, istore, usr>>
  /\ UNCHANGED regOthers

\* c.interceptors[label] = newInterceptorStore(interceptor), under interceptorsMu.Lock
RegisterInterceptor(label) ==
  /\ RegOps < MaxRegOps
  /\ regs.auth + regs.icpt < MaxStores
  /\ regs' = [regs EXCEPT !.icpt = @ + 1]
  /\ istore' = [istore EXCEPT ![regs.icpt + 1] = NewInterceptorStore]
  /\ icptOf' = [icptOf EXCEPT ![label] = regs.icpt + 1]
  /\ lastOp' = [lastOp EXCEPT !.icpt[label] = "reg"]
  /\ UNCHANGED <<authOf, astore, usr>>
  /\ UNCHANGED regOthers

\* delete(c.interceptors, label), under interceptorsMu.Lock
UnregisterInterceptor(label) ==
  /\ RegOps < MaxRegOps
  /\ regs' = [regs EXCEPT !.del = @ + 1]
  /\ icptOf' = [icptOf EXCEPT ![label] = NoStore]
  /\ lastOp' = [lastOp EXCEPT !.icpt[label] = "unreg"]
  /\ UNCHANGED <<authOf, astore, istore, usr>>
  /\ UNCHANGED regOthers

\* A goroutine is about to call AR or IR; the goroutines are numbered in the
\* order of their calls, which are counted against MaxCalls
CanUse(u) ==
  /\ usr[u].pc = "idle"
  /\ u = regs.use + 1
  /\ regs.use < MaxCalls
  /\ RegOps < MaxRegOps

\* What only the goroutine's own steps change besides the store they work on
UseFrame == UNCHANGED <<authOf, icptOf, lastOp>> /\ UNCHANGED regOthers

\* AR: authManager, exists := c.auths[serviceLabel]; without an entry the request
\* is built to fail with the error naming the label
ARLookup(u, serviceLabel) ==
  /\ CanUse(u)
  /\ regs' = [regs EXCEPT !.use = @ + 1]
  /\ usr' = [usr EXCEPT ![u] =
       IF authOf[serviceLabel] = NoStore
         THEN [NoUse EXCEPT !.pc = "done", !.op = "AR", !.label = serviceLabel,
                            !.err = ErrAuthNotExist(serviceLabel)]
         ELSE [NoUse EXCEPT !.pc = "getValidToken", !.op = "AR",
                            !.label = serviceLabel, !.obj = authOf[serviceLabel]]]
  /\ UNCHANGED <<astore, istore>>
  /\ UseFrame

\* Mutant: the fixed-token store goes through the refresh protocol
tokenAuthStoreGetValidToken_Refreshes(u) ==
  /\ usr[u].pc = "getValidToken"
  /\ astore[usr[u].obj].kind = "token"
  /\ usr' = [usr EXCEPT ![u].pc = "lock"]
  /\ UNCHANGED <<astore, istore, regs>>
  /\ UseFrame

\* tokenAuthStore.getValidToken: return string(*t), nil
tokenAuthStoreGetValidToken(u) ==
  /\ usr[u].pc = "getValidToken"
  /\ astore[usr[u].obj].kind = "token"
  /\ usr' = [usr EXCEPT ![u].pc = "done", ![u].token = astore[usr[u].obj].token,
                        ![u].err = "nil"]
  /\ UNCHANGED <<astore, istore, regs>>
  /\ UseFrame

\* refreshableAuthStore.getValidToken: the fast path
StoreFastPath(u) ==
  /\ usr[u].pc = "getValidToken"
  /\ astore[usr[u].obj].kind = "refreshable"
  /\ IF ~isExpired(astore[usr[u].obj].tokenExpiration, clock)
       THEN usr' = [usr EXCEPT ![u].pc = "done", ![u].err = "nil",
                               ![u].token = astore[usr[u].obj].token]
       ELSE usr' = [usr EXCEPT ![u].pc = "lock"]
  /\ UNCHANGED <<astore, istore, regs>>
  /\ UseFrame

\* Mutant: one refresh section for all the stores
StoreLockRefresh_Global(u) ==
  /\ usr[u].pc = "lock"
  /\ \A s \in StoreIds : astore[s].refreshMu = 0
  /\ astore' = [astore EXCEPT ![usr[u].obj].refreshMu = u]
  /\ usr' = [usr EXCEPT ![u].pc = "recheck"]
  /\ UNCHANGED <<istore, regs>>
  /\ UseFrame

\* as.refreshMu.Lock() of the store looked up
StoreLockRefresh(u) ==
  /\ usr[u].pc = "lock"
  /\ astore[usr[u].obj].refreshMu = 0
  /\ astore' = [astore EXCEPT ![usr[u].obj].refreshMu = u]
  /\ usr' = [usr EXCEPT ![u].pc = "recheck"]
  /\ UNCHANGED <<istore, regs>>
  /\ UseFrame

\* the second check under refreshMu
StoreRecheck(u) ==
  /\ usr[u].pc = "recheck"
  /\ IF ~isExpired(astore[usr[u].obj].tokenExpiration, clock)
       THEN /\ usr' = [usr EXCEPT ![u].pc = "done", ![u].err = "nil",
                                  ![u].token = astore[usr[u].obj].token]
            /\ astore' = [astore EXCEPT ![usr[u].obj].refreshMu = 0]
       ELSE /\ usr' = [usr EXCEPT ![u].pc = "inRefresh"]
            /\ UNCHANGED astore
  /\ UNCHANGED <<istore, regs>>
  /\ UseFrame

\* refreshTokenFunc returns (each store has a refresh function of its own, whose
\* tokens carry the number of the store; the identity reader has given the
\* credentials); setBearerToken; the deferred refreshMu.Unlock()
StoreRefreshed(u) ==
  /\ usr[u].pc = "inRefresh"
  /\ LET s == astore[usr[u].obj] IN
       \/ /\ astore' = [astore EXCEPT ![usr[u].obj] =
               [s EXCEPT !.token = EmptyToken, !.tokenExpiration = ZeroTime,
                         !.refreshMu = 0]]
          /\ usr' = [usr EXCEPT ![u].pc = "done", ![u].err = "ErrRefresh"]
       \/ \E t \in RefreshAnswers(usr[u].obj, clock) :
            /\ astore' = [astore EXCEPT ![usr[u].obj] =
                 [s EXCEPT !.token = t,
                           !.tokenExpiration = extractTokenExpiration(t),
                           !.refreshMu = 0]]
            /\ usr' = [usr EXCEPT ![u].pc = "done", ![u].err = "nil",
                                  ![u].token = t]
  /\ UNCHANGED <<istore, regs>>
  /\ UseFrame

\* IR: store, exists := c.interceptors[label]
IRLookup(u, label) ==
  /\ CanUse(u)
  /\ regs' = [regs EXCEPT !.use = @ + 1]
  /\ usr' = [usr EXCEPT ![u] =
       IF icptOf[label] = NoStore
         THEN [NoUse EXCEPT !.pc = "done", !.op = "IR", !.label = label,
                            !.err = ErrInterceptorNotExist(label)]
         ELSE [NoUse EXCEPT !.pc = "apply", !.op = "IR", !.label = label,
                            !.obj = icptOf[label]]]
  /\ UNCHANGED <<astore, istore>>
  /\ UseFrame

\* interceptorStore.apply under s.mu.RLock: in IR and after a recovery it is
\* followed by getGeneration, in the hook's skip path by the next attempt
StoreApply(u) ==
  /\ usr[u].pc \in {"apply", "skipApply"}
  /\ CanRLock(istore[usr[u].obj].mu)
  /\ UNCHANGED istore
  /\ usr' = [usr EXCEPT ![u].pc = IF usr[u].pc = "apply" THEN "getGen" ELSE "send"]
  /\ UNCHANGED <<astore, regs>>
  /\ UseFrame

\* initGen = store.getGeneration()
StoreGetGeneration(u) ==
  /\ usr[u].pc = "getGen"
  /\ CanRLock(istore[usr[u].obj].mu)
  /\ usr' = [usr EXCEPT ![u].pc = "send", ![u].gen = istore[usr[u].obj].generation]
  /\ UNCHANGED <<astore, istore, regs>>
  /\ UseFrame

\* An attempt and store.shouldIntercept on its response, under s.mu.RLock; the
\* retry count is that of an interceptor with the default MaxRetries
StoreSend(u) ==
  /\ usr[u].pc = "send"
  /\ CanRLock(istore[usr[u].obj].mu)
  /\ \E intercept \in BOOLEAN :
       IF intercept /\ usr[u].tries < defaultMaxRetries
         THEN usr' = [usr EXCEPT ![u].pc = "hook", ![u].tries = @ + 1]
         ELSE usr' = [usr EXCEPT ![u].pc = "done", ![u].gen = 0, ![u].tries = 0,
                        ![u].err = IF intercept THEN "ErrResponse" ELSE "nil"]
  /\ UNCHANGED <<astore, istore, regs>>
  /\ UseFrame

\* The retry hook: currentGen := store.getGeneration(), compared with initGen
StoreHook(u) ==
  /\ usr[u].pc = "hook"
  /\ CanRLock(istore[usr[u].obj].mu)
  /\ IF istore[usr[u].obj].generation # usr[u].gen
       THEN usr' = [usr EXCEPT ![u].pc = "skipApply",
                               ![u].gen = istore[usr[u].obj].generation]
       ELSE usr' = [usr EXCEPT ![u].pc = "recover"]
  /\ UNCHANGED <<astore, istore, regs>>
  /\ UseFrame

\* interceptorStore.recover: s.mu.Lock(); the generation is tested again and
\* Interceptor.Recover is entered if it has not changed
StoreRecover(u) ==
  /\ usr[u].pc = "recover"
  /\ CanLock(istore[usr[u].obj].mu)
  /\ IF istore[usr[u].obj].generation # usr[u].gen
       THEN /\ usr' = [usr EXCEPT ![u].pc = "apply"]
            /\ UNCHANGED istore
       ELSE /\ usr' = [usr EXCEPT ![u].pc = "inRecover"]
            /\ istore' = [istore EXCEPT ![usr[u].obj].mu = Lock(@, u)]
  /\ UNCHANGED <<astore, regs>>
  /\ UseFrame

\* Interceptor.Recover returns: on nil s.generation++ and the hook goes on to
\* apply, on an error the hook returns at once; s.mu.Unlock()
StoreRecovered(u) ==
  /\ usr[u].pc = "inRecover"
  /\ \E ok \in BOOLEAN :
       /\ istore' = [istore EXCEPT
            ![usr[u].obj].mu = Unlock(@, u),
            ![usr[u].obj].generation = IF ok THEN @ + 1 ELSE @]
       /\ usr' = [usr EXCEPT ![u].pc = IF ok THEN "apply" ELSE "send"]
  /\ UNCHANGED <<astore, regs>>
  /\ UseFrame

Registry ==
  \/ \E l \in Services : RegisterAuth(l)
  \/ \E l \in Services : RegisterToken(l)
  \/ \E l \in Services : UnregisterAuth(l)
  \/ \E l \in Services : RegisterInterceptor(l)
  \/ \E l \in Services : UnregisterInterceptor(l)

AR(u) ==
  \/ \E l \in Services : ARLookup(u, l)
  \/ tokenAuthStoreGetValidToken(u)
  \/ StoreFastPath(u)
  \/ StoreLockRefresh(u)
  \/ StoreRecheck(u)
  \/ StoreRefreshed(u)

IRByLabel(u) ==
  \/ \E l \in Services : IRLookup(u, l)
  \/ StoreApply(u)
  \/ StoreGetGeneration(u)
  \/ StoreSend(u)
  \/ StoreHook(u)
  \/ StoreRecover(u)
  \/ StoreRecovered(u)

RegistryStep ==
  \/ Registry
  \/ \E u \in Callers : AR(u) \/ IRByLabel(u)

(***************************************************************************)
(* Specifications                                                          *)
(***************************************************************************)
\* The token coordinator alone: no request is built through IR
AuthSpecInit ==
  /\ AuthInit /\ IcptInit /\ interceptorMaxRetries = 0
  /\ auths = {Registered} /\ interceptors = {}
  /\ SchedOff
  /\ RegistryOff
AuthNext == AuthStep
AuthSpec == AuthSpecInit /\ [][AuthNext]_vars

\* The same under fair scheduling: a caller inside getValidToken that can take
\* its next step again and again takes it (sync.Mutex hands the lock to a waiter
\* that has waited long), and identityReader.Get and refreshTokenFunc return
AuthFairness == \A c \in Callers : SF_vars(getValidTokenRest(c))
\* Each caller calls getValidToken once and the calls race
CallOnce(c) == apc[c] = "idle" /\ Call(c)
AuthLiveNext == \E c \in Callers : CallOnce(c) \/ getValidTokenRest(c)
AuthLiveSpec == AuthSpecInit /\ [][AuthLiveNext]_vars /\ AuthFairness

\* The recovery coordinator alone: nobody calls getValidToken
IcptSpecInit ==
  /\ AuthInit /\ IcptInit
  /\ auths = {} /\ interceptors = {Registered}
  /\ SchedOff
  /\ RegistryOff
IcptNext == IcptStep
IcptSpec == IcptSpecInit /\ [][IcptNext]_vars

\* The client with its registries: requests built through AR and IR, for
\* registered and for unknown labels
ClientSpecInit ==
  /\ AuthInit /\ IcptInit /\ interceptorMaxRetries = 0
  /\ ClientInit
  /\ SchedOff
  /\ RegistryOff
ClientNext == ClientStep
ClientSpec == ClientSpecInit /\ [][ClientNext]_vars

\* The scheduler alone, running one Exec or one Pool
SchedSpecInit ==
  /\ AuthInit /\ IcptInit /\ interceptorMaxRetries = 0
  /\ auths = {} /\ interceptors = {}
  /\ SchedInit
  /\ RegistryOff
SchedNext == SchedStep
SchedSpec == SchedSpecInit /\ [][SchedNext]_vars

\* The client with several labels registered, unregistered and used
RegistrySpecInit ==
  /\ AuthInit /\ IcptInit /\ interceptorMaxRetries = 0
  /\ auths = {} /\ interceptors = {}
  /\ SchedOff
  /\ RegistryInit
RegistryNext == RegistryStep
RegistrySpec == RegistrySpecInit /\ [][RegistryNext]_vars

\* The thundering-herd scenario: requests against the herd server, Recover
\* never fails
HerdNext ==
  \E r \in Requests :
    IR(r) \/ HerdSend(r) \/ EngineCondition(r) \/ RecoveringHook(r)
HerdSpec == IcptSpecInit /\ [][HerdNext]_vars

\* The max-retries scenario: requests against a server that never stops
\* triggering, Recover never fails
DenyNext ==
  \E r \in Requests :
    IR(r) \/ DenySend(r) \/ EngineCondition(r) \/ RecoveringHook(r)
DenySpec == IcptSpecInit /\ [][DenyNext]_vars

\* Both coordinators of one client.  They share no state, so a run uses one of
\* them: getValidToken calls that race, or requests built by IR
CoordSpecInit ==
  /\ AuthInit /\ IcptInit /\ interceptorMaxRetries = 0
  /\ auths = {Registered} /\ interceptors = {Registered}
  /\ SchedOff
  /\ RegistryOff
\* AR enters getValidToken on a client that has built no request by IR
CoordAR(c) ==
  /\ \A r \in Requests : rq[r].pc = "start"
  /\ CallOnce(c)
\* IR enters store.apply on a client whose AR has not been used
CoordIR(r) ==
  /\ calls = 0
  /\ IRApplyBegin(r)
CoordNext ==
  \/ \E c \in Callers : CoordAR(c) \/ getValidTokenRest(c)
  \/ \E r \in Requests : CoordIR(r) \/ IRRest(r) \/ Engine(r) \/ RetryHook(r)
CoordSpec == CoordSpecInit /\ [][CoordNext]_vars

\* The max-retries scenario for every kind of value Interceptor.MaxRetries may
\* return: negative, zero, positive.  The client is made with RetryCount 0, as
\* in the tests, so that a request of c.client.R() starts with retry count 0
MaxRetriesInputs == -1 .. MaxMaxRetries
BudgetSpecInit ==
  /\ AuthInit
  /\ interceptorMaxRetries \in MaxRetriesInputs
  /\ istate = CleanState /\ generation = 0 /\ mu = FreeMu
  /\ rq = [r \in Requests |-> NewRequest]
  /\ recoverCalls = 0 /\ recoverOks = 0 /\ lastFailed = {}
  /\ tornApply = FALSE /\ sends = 0 /\ skippedAfterFail = FALSE
  /\ auths = {} /\ interceptors = {Registered}
  /\ SchedOff
  /\ RegistryOff
BudgetSpec == BudgetSpecInit /\ [][DenyNext]_vars

(***************************************************************************)
(* Properties of refreshableAuthStore, checked under AuthSpec              *)
(***************************************************************************)

\* The refresh section: from refreshMu.Lock() to the deferred refreshMu.Unlock()
InRefreshSection(c) ==
  apc[c] \in {"recheck", "get", "inGet", "refresh", "inRefresh", "setToken",
              "setExpiration", "return"}

\* C1: at most one caller at a time is inside the refresh section, so two
\* invocations of identityReader.Get, or two of refreshTokenFunc, never overlap.
C1_SingleRefresher ==
  /\ \A c, d \in Callers :
       c # d => ~(InRefreshSection(c) /\ InRefreshSection(d))
  /\ \A c \in Callers : InRefreshSection(c) => refreshMu = c
  /\ Cardinality({c \in Callers : apc[c] = "inGet"}) <= 1
  /\ Cardinality({c \in Callers : apc[c] = "inRefresh"}) <= 1

\* One caller is inside refreshTokenFunc while another waits for refreshMu
C1_Witness ==
  \E c, d \in Callers : apc[c] = "inRefresh" /\ apc[d] = "lock"

\* N concurrent callers on an expired token: every caller is in the herd (their
\* calls overlap, each found the token expired) and has returned
HerdDone == herd = Callers /\ \A c \in Callers : apc[c] = "done"

HerdServedWell ==
  /\ \A c \in Callers : stats[c].failed = "nil"
  /\ \A c, d \in Callers :
       ret[c].path = "refresh" =>
         extractTokenExpiration(ret[c].token) >= ret[d].now + defaultAuthRefreshBuffer

C3_NeverStale ==
  \A c \in Callers :
    (apc[c] = "done" /\ ret[c].err = "nil") =>
      extractTokenExpiration(ret[c].token) >= ret[c].now + defaultAuthRefreshBuffer

\* C3 amended: a call that returns without error through the fast path or the
\* re-check path returns a token whose decoded expiration is not earlier than
\* the call's now (taken at entry) + refreshBuffer; a freshly refreshed token is
\* returned unchecked.
C3_NeverStaleFromCache ==
  \A c \in Callers :
    (apc[c] = "done" /\ ret[c].err = "nil" /\ ret[c].path \in {"fast", "recheck"}) =>
      extractTokenExpiration(ret[c].token) >= ret[c].now + defaultAuthRefreshBuffer

\* A token came back through the re-check path
C3_Witness ==
  \E c \in Callers :
    /\ apc[c] = "done" /\ ret[c].err = "nil" /\ ret[c].path = "recheck"
    /\ ret[c].token.kind = "jwt"

\* The cache is empty: empty token, zero expiration, nobody writing it
CacheCleared == token = EmptyToken /\ tokenExpiration = ZeroTime /\ tokenMu = 0

\* The call of c ends with error e: the cache is cleared before it returns, it
\* returns ("", e), and the cache is still cleared in the state it returns into
FailsWith(c, e) ==
  /\ apc[c] \in {"setToken", "setExpiration", "return", "done"}
  /\ apc[c] = "return" => CacheCleared /\ pending[c] = [token |-> EmptyToken, err |-> e]
  /\ apc[c] = "done" => ret[c].err = e /\ ret[c].token = EmptyToken

ReturnsCleared(c) ==
  (apc[c] = "return" /\ apc'[c] = "done") => CacheCleared'

\* C4: when refreshTokenFunc fails, getValidToken returns that error with an
\* empty token, and on return the cache holds the empty token and the zero
\* expiration, so the next call starts from an empty cache.
C4_RefreshFailureClears ==
  /\ [](\A c \in Callers : stats[c].failed = "ErrRefresh" => FailsWith(c, "ErrRefresh"))
  /\ [][\A c \in Callers : stats[c].failed = "ErrRefresh" => ReturnsCleared(c)]_vars

\* A token was cached by one call and discarded by a later call whose refresh failed
C4_Witness ==
  \E c, d \in Callers :
    /\ apc[c] = "done" /\ ret[c].err = "ErrRefresh"
    /\ apc[d] = "done" /\ ret[d].path = "refresh" /\ ret[d].token.kind = "jwt"
    /\ CacheCleared

\* C5: when identityReader.Get fails, refreshTokenFunc is not invoked, the cache
\* is cleared and the credential source's error is returned.
C5_CredentialFailureClears ==
  /\ [](\A c \in Callers :
          stats[c].failed = "ErrCred" =>
            stats[c].refreshes = 0 /\ FailsWith(c, "ErrCred"))
  /\ [][\A c \in Callers : stats[c].failed = "ErrCred" => ReturnsCleared(c)]_vars

\* A token was cached by one call and discarded by a later call whose Get failed
C5_Witness ==
  \E c, d \in Callers :
    /\ apc[c] = "done" /\ ret[c].err = "ErrCred" /\ stats[c].gets = 1
    /\ apc[d] = "done" /\ ret[d].path = "refresh" /\ ret[d].token.kind = "jwt"
    /\ CacheCleared

\* The first check of c finds the cached expiration at or after now + buffer
FreshAtFastPath(c) ==
  /\ apc[c] = "fast"
  /\ apc'[c] # "fast"
  /\ tokenExpiration >= now[c] + defaultAuthRefreshBuffer

\* C6: if the cached expiration is at or after now + refreshBuffer, the call
\* returns the cached token without acquiring the refresh section, without
\* invoking identityReader.Get or refreshTokenFunc, and leaves the cache unchanged.
C6_FastPath ==
  [][\A c \in Callers :
       FreshAtFastPath(c) =>
         /\ apc'[c] = "done"
         /\ ret'[c].token = token /\ ret'[c].err = "nil"
         /\ UNCHANGED <<token, tokenExpiration, tokenMu, refreshMu, getCalls,
                        refreshCalls>>]_vars

\* A call returned the cached token while another caller held the refresh section
C6_Witness ==
  \E c, d \in Callers :
    /\ apc[c] = "done" /\ ret[c].path = "fast" /\ ret[c].token.kind = "jwt"
    /\ stats[c] = NoStats
    /\ refreshMu = d /\ c # d

(***************************************************************************)
(* Properties of interceptorStore and the retry hook, checked under        *)
(* IcptSpec                                                                *)
(***************************************************************************)

\* Inside Interceptor.Recover / inside Interceptor.Apply
InRecover(r) == rq[r].pc = "inRecover"
InApply(r) == rq[r].pc \in {"irInApply", "skipInApply", "recInApply"}

\* C7: two invocations of Interceptor.Recover are never in progress at the
\* same time.
C7_OneRecoverAtATime ==
  /\ Cardinality({r \in Requests : InRecover(r)}) <= 1
  /\ \A r \in Requests : InRecover(r) => mu.writer = r

\* One request is inside Recover while another waits in store.recover
C7_Witness ==
  \E r, q \in Requests : InRecover(r) /\ rq[q].pc = "recover"

\* C8: Interceptor.Recover and Interceptor.Apply never execute at the same
\* time: an Apply sees the interceptor state unchanged from its start to its
\* end, never half-written, and it is the state left by the recoveries that
\* completed before the Apply started.
C8_ApplyNeverOverlapsRecover ==
  /\ \A r, q \in Requests : ~(InRecover(r) /\ InApply(q))
  /\ ~tornApply
  /\ \A q \in Requests :
       InApply(q) =>
         /\ ~istate.dirty
         /\ rq[q].applySeen = istate
         /\ istate.ver = recoverOks

\* An Apply is in progress on the state a completed recovery left, while
\* another request waits in store.recover for the Apply to end
C8_Witness ==
  \E r, q \in Requests :
    /\ InApply(q) /\ rq[q].applySeen.ver >= 1
    /\ rq[r].pc = "recover"

\* The step is Interceptor.Recover returning nil inside store.recover
RecoverSucceeds ==
  \E r \in Requests :
    /\ InRecover(r) /\ ~InRecover(r)'
    /\ rq'[r].recoverErr = "nil"
    /\ recoverOks' = recoverOks + 1

\* C9: generation equals the number of Interceptor.Recover invocations that
\* returned without error: it starts at 0, increases by exactly 1 on each
\* successful Recover, and is changed by no other operation.
C9_GenerationCountsRecoveries ==
  /\ [](generation = recoverOks)
  /\ [][\/ generation' = generation /\ ~RecoverSucceeds
        \/ generation' = generation + 1 /\ RecoverSucceeds]_vars

\* One Recover failed and another succeeded
C9_Witness ==
  /\ generation = 1
  /\ recoverCalls = 2
  /\ \A r \in Requests : ~InRecover(r)

\* The step is Interceptor.Recover returning an error to request r
RecoverFails(r) == InRecover(r) /\ ~InRecover(r)' /\ lastFailed' # {}

\* C10: when Interceptor.Recover returns an error, generation is left
\* unchanged, store.recover returns the error, the hook does not advance the
\* request's baseline, and the next store.recover call with that baseline calls
\* Interceptor.Recover again instead of skipping.
C10_FailedRecoverIsRetried ==
  /\ [][\A r \in Requests :
          RecoverFails(r) =>
            /\ generation' = generation
            /\ rq'[r].recoverErr = "ErrRecover"
            /\ rq'[r].initGen = rq[r].initGen
            /\ rq'[r].initGen = generation']_vars
  /\ []~skippedAfterFail

\* A request is inside Recover again at the baseline at which the last
\* store.recover call failed
C10_Witness ==
  \E r \in Requests : InRecover(r) /\ lastFailed = {rq[r].currentGen}

(***************************************************************************)
(* Properties of the thundering-herd scenario, checked under HerdSpec      *)
(***************************************************************************)

AllDone == \A r \in Requests : rq[r].pc = "done"

\* Every request was retried: against the herd server that is a request built
\* before the recovery whose first attempt was intercepted
HerdAllIntercepted == AllDone /\ \A r \in Requests : rq[r].RetryAttempt >= 1

\* C11: when the concurrent requests built at the same generation all have
\* their first attempt intercepted, Recover succeeds and later attempts are not
\* intercepted, Interceptor.Recover is invoked exactly once, by one request;
\* the others skip it; every retry is sent with the recovered state applied,
\* and all requests complete successfully.
C11_OnlyOneRecovers ==
  /\ recoverCalls <= 1
  /\ \A r \in Requests :
       (rq[r].pc = "send" /\ rq[r].RetryAttempt >= 1) =>
         istate.ver = 1 /\ rq[r].applied = 1
  /\ HerdAllIntercepted =>
       /\ recoverCalls = 1
       /\ Cardinality({r \in Requests : rq[r].recovers = 1}) = 1
       /\ \A r \in Requests :
            /\ rq[r].recovers <= 1
            /\ rq[r].attempts = 2
            /\ ~rq[r].resp.intercept
            /\ rq[r].err = "nil"

\* Both requests were intercepted and completed: one recovered, the other did not
C11_Witness ==
  /\ HerdAllIntercepted
  /\ \E r, q \in Requests : rq[r].recovers = 1 /\ rq[q].recovers = 0

(***************************************************************************)
(* Properties of the retry protocol, checked under IcptSpec                *)
(***************************************************************************)

\* The requests built with baseline g whose first attempt was intercepted and
\* whose hook for that attempt has ended
FirstRound(g) ==
  {r \in Requests : rq[r].herdGen = g /\ rq[r].firstHook # "none"}

\* The requests whose hook for the first attempt invoked Interceptor.Recover
FirstRoundRecoverers == {r \in Requests : rq[r].firstHook = "recovered"}

\* C12: when all N requests are built at the same generation and observe a
\* triggering response on their first attempt, and no Recover fails, the hooks
\* run for those responses invoke Interceptor.Recover at least once and, for
\* N > 1, fewer than N times.
C12_HerdBound ==
  \A g \in 0..MaxSends :
    (FirstRound(g) = Requests /\ \A r \in Requests : rq[r].firstHook # "failed") =>
      /\ Cardinality(FirstRoundRecoverers) >= 1
      /\ NumRequests > 1 => Cardinality(FirstRoundRecoverers) < NumRequests

\* All requests were triggered at generation 0: one recovered, another skipped
C12_Witness ==
  /\ FirstRound(0) = Requests
  /\ \E r, q \in Requests :
       rq[r].firstHook = "recovered" /\ rq[q].firstHook = "skipped"

(***************************************************************************)
(* Properties of the max-retries scenario, checked under DenySpec          *)
(***************************************************************************)

\* r is the only request built so far
Alone(r) == \A q \in Requests \ {r} : rq[q].pc = "start"

\* What store.maxRetries() gives for the interceptor of the run
BudgetOfRun ==
  IF interceptorMaxRetries > 0 THEN interceptorMaxRetries ELSE defaultMaxRetries

\* C13: a single request against a server that answers every attempt with the
\* triggering response, Recover always succeeding, invokes Interceptor.Recover
\* exactly maxRetries() times (2 for 2); it is then not sent again, and the
\* caller gets the last failing response together with its error.
C13_RecoversMaxTimes ==
  /\ [](\A r \in Requests :
          (rq[r].pc = "done" /\ Alone(r)) =>
            /\ rq[r].recovers = BudgetOfRun
            /\ interceptorMaxRetries = 2 => rq[r].recovers = 2
            /\ rq[r].attempts = BudgetOfRun + 1
            /\ rq[r].resp.intercept /\ rq[r].resp.cause
            /\ rq[r].err = "ErrResponse")
  /\ [][\A r \in Requests : rq[r].pc = "done" => rq'[r] = rq[r]]_vars

\* A single request with the largest retry budget used it up
C13_Witness ==
  \E r \in Requests :
    /\ rq[r].pc = "done" /\ Alone(r)
    /\ interceptorMaxRetries = MaxMaxRetries
    /\ rq[r].recovers = MaxMaxRetries
    /\ rq[r].err = "ErrResponse"

(***************************************************************************)
(* Properties of every request, checked under IcptSpec                     *)
(***************************************************************************)

\* The step ends request r
Ends(r) == rq[r].pc # "done" /\ rq'[r].pc = "done"

\* C14: each request runs its retry hook at most maxRetries() times, so it
\* invokes Interceptor.Recover at most maxRetries() times and is sent at most
\* maxRetries() + 1 times; it then ends with the response and error of its
\* last attempt, and an ended request takes no further step.
C14_RetriesBounded ==
  /\ [](\A r \in Requests :
          /\ rq[r].RetryAttempt <= BudgetOfRun
          /\ rq[r].recovers <= rq[r].RetryAttempt
          /\ rq[r].attempts <= rq[r].RetryAttempt + 1
          /\ rq[r].attempts <= BudgetOfRun + 1)
  /\ [][\A r \in Requests :
          /\ (Ends(r) /\ rq[r].pc = "sent") =>
               rq'[r].resp = rq[r].resp /\ rq'[r].attempts = rq[r].attempts
          /\ (Ends(r) /\ rq[r].pc = "send") =>
               rq'[r].attempts = BudgetOfRun + 1
          /\ Ends(r) => rq[r].pc \in {"send", "sent"}
          /\ rq[r].pc = "done" => rq'[r].pc = "done"]_vars

\* A request used up its retry budget while another request was in flight
C14_Witness ==
  \E r, q \in Requests :
    /\ rq[r].pc = "done"
    /\ rq[r].attempts = BudgetOfRun + 1 /\ rq[r].recovers = BudgetOfRun
    /\ rq[q].pc \notin {"start", "done"}

\* C15 as claimed: every attempt of a request is preceded by an Apply call made
\* after the previous attempt's response, so a request about to be sent has had
\* one Apply more than attempts, and a request just sent as many.
C15_ApplyBeforeEverySend ==
  \A r \in Requests :
    /\ rq[r].pc = "send" => rq[r].applies = rq[r].attempts + 1
    /\ rq[r].pc = "sent" => rq[r].applies = rq[r].attempts

\* C16 as claimed: when Interceptor.Recover failed in the hook before the
\* request's last attempt, the error the caller gets is the Recover error.
C16_RecoverErrorPropagated ==
  \A r \in Requests :
    (rq[r].pc = "done" /\ rq[r].recoverErr = "ErrRecover") =>
      rq[r].err = "ErrRecover"

\* C17 as claimed: Interceptor.Recover is only entered for a request whose last
\* attempt ShouldIntercept accepted.
C17_RecoverOnlyWhenIntercepted ==
  [][\A r \in Requests :
       (rq[r].pc = "recover" /\ rq'[r].pc = "inRecover") =>
         rq[r].resp.intercept]_vars

\* The request is on the skip path of the hook: it has read a generation that
\* differs from its baseline and has not yet returned from the hook
OnSkipPath(r) == rq[r].pc \in {"skipApply", "skipInApply"}

DetectsMismatch(r) ==
  /\ rq[r].pc = "hook" /\ rq'[r].pc # "hook"
  /\ generation # rq[r].initGen

ErrorRequests == {r \in Requests : rq[r].hookErr # "nil"}

\* The errors that name a label missing from the registry it was looked up in
UnknownLabelErrors ==
  {"auth manager for service " \o l \o " does not exist" : l \in Labels \ auths}
    \cup {"interceptor " \o l \o " does not exist" : l \in Labels \ interceptors}

\* C19: AR(label) and IR(label) for a label that is not registered return a
\* request object whatever the state of the client is; sending that request
\* ends, after the attempts the client's retry count allows, with the error
\* that names the label; neither the builder call nor any attempt of the send
\* enters getValidToken, Get, the refresh function, Apply or Recover, takes a
\* lock of a coordinator or changes its state; and with an empty registry no
\* operation of a coordinator of that kind is ever invoked.
C19_UnknownLabel ==
  /\ [](\A l \in Labels, r \in Requests :
          (rq[r].pc = "start" /\ Ops < MaxOps
             /\ \A q \in Requests : q < r => rq[q].pc # "start") =>
            /\ l \notin auths => ENABLED ARNotExists(l, r)
            /\ l \notin interceptors => ENABLED IRNotExists(l, r))
  /\ [](\A r \in ErrorRequests :
          /\ rq[r].pc \in {"lost", "done"}
          /\ rq[r].hookErr \in UnknownLabelErrors
          /\ rq[r].applies = 0 /\ rq[r].recovers = 0
          /\ rq[r].pc = "done" =>
               /\ rq[r].err = rq[r].hookErr
               /\ rq[r].attempts = rq[r].retryCount + 1)
  /\ [][\A r \in Requests :
          (rq'[r] # rq[r] /\ rq'[r].hookErr # "nil") =>
            /\ UNCHANGED <<authVars, clientVars>>
            /\ UNCHANGED <<interceptorMaxRetries, istate, generation, mu,
                           recoverCalls, recoverOks, lastFailed, tornApply,
                           skippedAfterFail>>
            /\ \A q \in Requests \ {r} : rq'[q] = rq[q]]_vars
  /\ [][/\ auths = {} =>
             UNCHANGED <<calls, getCalls, refreshCalls, token, refreshMu>>
        /\ interceptors = {} =>
             /\ UNCHANGED <<recoverCalls, istate, generation, mu>>
             /\ \A r \in Requests : rq'[r].applies = rq[r].applies]_vars

\* With the coordinators registered under another label, a request built by AR
\* for an unknown label was sent and failed with the error that names the label
C19_Witness ==
  /\ auths = {Registered}
  /\ \E r \in Requests :
       /\ rq[r].pc = "done"
       /\ rq[r].err = "auth manager for service non-existent does not exist"
       /\ rq[r].attempts >= 1

(***************************************************************************)
(* The cached pair, checked under AuthSpec                                 *)
(***************************************************************************)

\* C21: whenever tokenMu is not held by a writer, that is in every state a
\* reader of the cache can observe, the cached expiration is the one decoded
\* from the cached token: its exp claim if it has one, the zero instant if the
\* token is empty, malformed or without an exp claim.
C21_ExpirationMatchesToken ==
  tokenMu = 0 =>
    /\ token.kind = "jwt" => tokenExpiration = token.exp
    /\ token.kind \in {"blank", "malformed", "noexp"} => tokenExpiration = ZeroTime

\* The cache was refreshed and a reader on the fast path returned the new
\* token, read together with its own expiration
C21_Witness ==
  /\ tokenMu = 0
  /\ token.kind = "jwt" /\ token.serial >= 1 /\ tokenExpiration = token.exp
  /\ \E c \in Callers :
       apc[c] = "done" /\ ret[c].path = "fast" /\ ret[c].token = token

\* C30: a caller that re-tests under refreshMu and finds the cache no longer
\* expired returns the cached token with a nil error and releases refreshMu,
\* without calling Get or the refresh function and without writing the cache.
C30_DoubleCheck ==
  /\ [](\A c \in Callers : apc[c] = "recheck" => refreshMu = c)
  /\ [][\A c \in Callers :
          (/\ apc[c] = "recheck" /\ apc'[c] # "recheck"
           /\ tokenExpiration >= now[c] + defaultAuthRefreshBuffer) =>
            /\ apc'[c] = "done"
            /\ ret'[c].token = token /\ ret'[c].err = "nil"
            /\ stats'[c].gets = 0 /\ stats'[c].refreshes = 0
            /\ refreshMu' = 0
            /\ UNCHANGED <<token, tokenExpiration, getCalls, refreshCalls>>]_vars

\* A caller found the cache expired on the fast path, waited for the refresh
\* section and returned from the re-test the token another caller had stored
C30_Witness ==
  \E c \in Callers :
    /\ apc[c] = "done" /\ ret[c].path = "recheck"
    /\ ret[c].token = token /\ token.serial >= 1
    /\ stats[c].gets = 0 /\ stats[c].refreshes = 0

(***************************************************************************)
(* scheduler, checked under SchedSpec                                      *)
(***************************************************************************)

\* C25: in an Exec whose context is never cancelled no task is ever handed to
\* the handler twice, and when Exec has returned the source is exhausted,
\* every task has been handled exactly once, no handler invocation is running
\* and every worker has exited.
C25_ExecHandlesEachOnce ==
  mode = "exec" =>
    /\ cancelled = "never" => \A t \in Tasks : handled[t] <= 1
    /\ (feeder.pc = "returned" /\ cancelled = "never") =>
         /\ feeder.idx = NumTasks
         /\ \A t \in Tasks : handled[t] = 1
         /\ \A w \in Workers : wk[w].pc \in {"none", "exited"}

\* Exec returned with more than one worker, all tasks handled
C25_Witness ==
  /\ mode = "exec" /\ feeder.pc = "returned" /\ cancelled = "never"
  /\ Parallelism = MaxParallelism
  /\ \A t \in Tasks : handled[t] = 1

\* C26: the handler invocations running at the same time are never more than
\* the configured Parallelism, and never more than one when Parallelism <= 0;
\* this holds for Exec and for Pool.
C26_ParallelismLimit ==
  /\ mode \in {"exec", "pool"}
  /\ Cardinality({w \in Workers : wk[w].pc = "handling"})
       <= (IF Parallelism <= 0 THEN 1 ELSE Parallelism)

\* The limit is reached: as many handlers run as Parallelism allows, more than one
C26_Witness ==
  /\ Parallelism >= 2
  /\ Cardinality({w \in Workers : wk[w].pc = "handling"}) = Parallelism

\* C27: an Exec whose context was cancelled before the call never invokes the
\* handler.
C27_PreCancelledFeedsNothing ==
  (mode = "exec" /\ cancelled = "before") => \A t \in Tasks : handled[t] = 0

\* C28: a Submit call made after the cancellation of the pool's context does
\* not return true and its task is never handled; a Submit call that returned
\* true has had the handler invoked on its task exactly once.
C28_SubmitAfterCancel ==
  \A t \in Tasks :
    /\ sub[t].late => (sub[t].pc # "true" /\ handled[t] = 0)
    /\ sub[t].pc = "true" => handled[t] = 1

\* C29: when Close has returned every worker has exited, no handler invocation
\* is running, and every task for which Submit returned true has been handled
\* exactly once.
C29_CloseWaits ==
  closer = "returned" =>
    /\ \A w \in Workers : wk[w].pc \in {"none", "exited"}
    /\ \A t \in Tasks : sub[t].pc = "true" => handled[t] = 1

\* Close returned after every task was submitted with success to a pool of
\* more than one worker
C29_Witness ==
  /\ mode = "pool" /\ closer = "returned"
  /\ Parallelism = MaxParallelism
  /\ \A t \in Tasks : sub[t].pc = "true" /\ handled[t] = 1


\* The goroutines whose AR found a fixed-token store
TokenUsers ==
  {u \in Callers : usr[u].op = "AR" /\ usr[u].obj # NoStore
                     /\ astore[usr[u].obj].kind = "token"}

\* C22: for a label registered with RegisterToken, every getValidToken call
\* returns exactly the registered token and no error, however many calls are made
\* and however they interleave with each other and with the other labels, and
\* none of them enters the refresh protocol: the store's token stays the
\* registered one, its refresh section is never taken, and no caller of it is
\* ever at the lock, the re-check or inside a refresh function.
C22_FixedToken ==
  /\ \A s \in StoreIds :
       astore[s].kind = "token" =>
         astore[s].token = FixedToken(s) /\ astore[s].refreshMu = 0
  /\ \A u \in TokenUsers :
       /\ usr[u].pc \in {"getValidToken", "done"}
       /\ usr[u].pc = "done" =>
            usr[u].err = "nil" /\ usr[u].token = FixedToken(usr[u].obj)

\* Two goroutines have got the token of the same fixed-token store
C22_Witness ==
  \E u, v \in TokenUsers :
    /\ u # v
    /\ usr[u].obj = usr[v].obj
    /\ usr[u].pc = "done" /\ usr[v].pc = "done"
    /\ usr[u].token = FixedToken(usr[u].obj)


\* The labels whose entry a step changes, in each registry
AuthChanged == {l \in Services : authOf'[l] # authOf[l]}
IcptChanged == {l \in Services : icptOf'[l] # icptOf[l]}

\* C24 (the state): in each registry a label resolves to a store if and only if
\* the last completed operation on that label in that registry was a
\* registration.
C24_ResolvesIffRegistered ==
  \A l \in Services :
    /\ authOf[l] # NoStore <=> lastOp.auth[l] = "reg"
    /\ icptOf[l] # NoStore <=> lastOp.icpt[l] = "reg"

\* C24 (the steps): a step changes the entry of at most one label, in at most one
\* of the two registries, and what it changes is the entry alone: the stores held
\* under the other labels and in the other registry stay as they are.
C24_OneLabelStep ==
  /\ Cardinality(AuthChanged) + Cardinality(IcptChanged) <= 1
  /\ AuthChanged # {} => lastOp'.icpt = lastOp.icpt /\ istore' = istore
  /\ IcptChanged # {} => lastOp'.auth = lastOp.auth /\ astore' = astore
  /\ \A l \in Services :
       /\ AuthChanged # {} /\ l \notin AuthChanged /\ authOf[l] # NoStore =>
            astore'[authOf[l]] = astore[authOf[l]]
       /\ IcptChanged # {} /\ l \notin IcptChanged /\ icptOf[l] # NoStore =>
            istore'[icptOf[l]] = istore[icptOf[l]]
       /\ lastOp'.auth[l] # lastOp.auth[l] => AuthChanged \subseteq {l}
       /\ lastOp'.icpt[l] # lastOp.icpt[l] => IcptChanged \subseteq {l}

\* C24: after any interleaving of RegisterAuth, RegisterToken, UnregisterAuth,
\* RegisterInterceptor and UnregisterInterceptor calls, a label resolves in a
\* registry if and only if the last operation on it there was a registration;
\* the two registries do not affect each other, and an operation on one label
\* does not change the entry of another.
C24_Registries == [](C24_ResolvesIffRegistered) /\ [][C24_OneLabelStep]_vars

\* One label has been registered and unregistered while the other label of the
\* same registry is still registered
C24_Witness ==
  \E l, m \in Services :
    /\ l # m
    /\ lastOp.auth[l] = "unreg" /\ authOf[l] = NoStore
    /\ authOf[m] # NoStore


\* The goroutines that take a step
Movers == {u \in Callers : usr'[u] # usr[u]}

\* The goroutines working on a store they found under a label
Working == {u \in Callers : usr[u].pc \notin {"idle", "done"}}

\* C23 (the steps): an operation through one label changes the token cache and
\* the refresh lock of the auth store it found, or the generation and the lock of
\* the interceptor store it found, and of no other store.
C23_OwnStoreStep ==
  \A s \in StoreIds :
    /\ astore'[s] # astore[s] /\ regs'.auth = regs.auth =>
         \E u \in Movers : usr[u].op = "AR" /\ usr[u].obj = s
    /\ istore'[s] # istore[s] /\ regs'.icpt = regs.icpt =>
         \E u \in Movers : usr[u].op = "IR" /\ usr[u].obj = s

\* C23 (whose functions run): a goroutine inside a refresh function or inside
\* Recover holds the lock of its own store, and a token a goroutine got from a
\* refresh, as well as the token a store caches, was issued for that store.
C23_OwnFunctions ==
  /\ \A u \in Callers :
       /\ usr[u].pc = "inRefresh" => astore[usr[u].obj].refreshMu = u
       /\ usr[u].pc = "inRecover" => ~CanRLock(istore[usr[u].obj].mu)
       /\ usr[u].op = "AR" /\ usr[u].pc = "done" /\ usr[u].err = "nil" =>
            usr[u].token.serial = usr[u].obj
  /\ \A s \in StoreIds : astore[s].token.serial \in {EmptyToken.serial, s}

\* C23 (no waiting on other stores): a goroutine can take its next step whenever
\* the lock of its own store allows it, whatever the locks of the other stores.
C23_OwnLockOnly ==
  \A u \in Working :
    /\ usr[u].pc = "lock" /\ astore[usr[u].obj].refreshMu = 0 =>
         ENABLED StoreLockRefresh(u)
    /\ usr[u].pc \in {"getValidToken", "recheck", "inRefresh"} => ENABLED AR(u)
    /\ usr[u].pc = "recover" /\ CanLock(istore[usr[u].obj].mu) =>
         ENABLED StoreRecover(u)
    /\ usr[u].pc \in {"apply", "skipApply", "getGen", "send", "hook"}
         /\ CanRLock(istore[usr[u].obj].mu) => ENABLED IRByLabel(u)
    /\ usr[u].pc = "inRecover" => ENABLED StoreRecovered(u)

\* C23: stores registered under different labels are independent: an operation
\* through one label leaves the token cache and the generation of every other
\* store unchanged, runs no other store's refresh function or Recover, and waits
\* on no other store's lock, so that a refresh or a recovery in progress for one
\* label does not block a request for another.
C23_Independent ==
  [](C23_OwnFunctions /\ C23_OwnLockOnly) /\ [][C23_OwnStoreStep]_vars

\* A recovery is in progress for one label, and a request for another label, made
\* by a goroutine that called later, has completed without an error
C23_Witness ==
  \E u, v \in Callers :
    /\ u < v
    /\ usr[u].pc = "inRecover"
    /\ usr[v].op = "IR" /\ usr[v].pc = "done" /\ usr[v].err = "nil"
    /\ usr[v].label # usr[u].label
    /\ usr[v].obj # usr[u].obj


\* A token whose expiration extractTokenExpiration cannot decode
Undecodable(t) == t.kind \in {"malformed", "noexp"}

\* The callers in the refresh section that found an undecodable token in the
\* cache: the cache is written only under refreshMu, so until the caller's own
\* setBearerToken the cache is what its re-check saw
FoundUndecodable ==
  {c \in Callers : apc[c] = "setToken" /\ Undecodable(token)}

\* C31 as claimed: every subsequent call invokes the RefreshFunction again:
\* a call that found the undecodable token cached has invoked refreshTokenFunc
\* once by the time it stores its result.
C31_RefreshEveryCall ==
  \A c \in FoundUndecodable : stats[c].refreshes = 1

\* C31 amended: a token whose expiration cannot be decoded is cached with the
\* zero expiration and returned; while it is the cached token it is expired for
\* every caller, no call returns it from the cache, and every call that finds it
\* invokes the credential source again, once, and then, unless the credential
\* source failed, the RefreshFunction, once.
C31_UndecodableAlwaysExpired ==
  /\ \A c \in Callers :
       /\ apc[c] = "return" /\ Undecodable(pending[c].token) =>
            /\ pending[c].err = "nil"
            /\ token = pending[c].token
            /\ tokenExpiration = ZeroTime
       /\ apc[c] = "done" /\ Undecodable(ret[c].token) =>
            ret[c].err = "nil" /\ ret[c].path = "refresh"
       /\ apc[c] \in {"fast", "recheck"} /\ tokenMu = 0 /\ Undecodable(token) =>
            isExpired(tokenExpiration, now[c])
  /\ \A c \in FoundUndecodable :
       /\ stats[c].gets = 1
       /\ stats[c].refreshes = IF stats[c].failed = "ErrCred" THEN 0 ELSE 1

\* A later call found the undecodable token of an earlier refresh in the cache
\* and has invoked the RefreshFunction again
C31_Witness ==
  \E c \in FoundUndecodable :
    /\ token.serial < refreshCalls
    /\ stats[c].refreshes = 1
    /\ pending[c].err = "nil"


\* C36: the re-test under the refresh section judges expiry against the time at
\* which it is performed: a call that returns the cached token from the re-check
\* returns a token that does not expire within the refresh buffer of the time of
\* that re-test (which is not earlier than the time refreshMu was acquired).
C36_RecheckAtCurrentTime ==
  [][\A c \in Callers :
       apc[c] = "recheck" /\ apc'[c] = "done" =>
         extractTokenExpiration(ret'[c].token) >= clock + defaultAuthRefreshBuffer]_vars


\* The callers inside getValidToken
InCall == {c \in Callers : apc[c] \notin {"idle", "done"}}

\* C37 (the locks): a caller outside getValidToken holds neither lock, tokenMu is
\* only taken by the holder of refreshMu, and whenever a call is under way some
\* caller inside getValidToken can take a step: no reachable state is a deadlock.
C37_NoDeadlock ==
  /\ \A c \in Callers \ InCall : refreshMu # c /\ tokenMu # c
  /\ tokenMu # 0 => refreshMu = tokenMu
  /\ InCall # {} => \E c \in InCall : ENABLED getValidTokenRest(c)

\* C37: under fair scheduling, with a credential source and a RefreshFunction
\* that always return, every getValidToken call eventually returns, for any
\* number of concurrent callers, and no reachable state is a deadlock.
C37_EveryCallReturns ==
  /\ []C37_NoDeadlock
  /\ \A c \in Callers : (c \in InCall) ~> (apc[c] = "done")

\* One caller waits for refreshMu while another holds it inside the refresh function
C37_Witness ==
  \E c, d \in Callers :
    /\ apc[c] = "lock"
    /\ apc[d] = "inRefresh" /\ refreshMu = d


(***************************************************************************)
(* The two generation tests of a retry, checked under IcptSpec             *)
(***************************************************************************)

\* r takes a step from position p
StepsFrom(r, p) == rq[r].pc = p /\ rq'[r].pc # p

\* C32: when the generation the hook reads at entry differs from the request's
\* baseline, that hook does not invoke Interceptor.Recover; it calls
\* Interceptor.Apply on the request exactly once, sets the baseline to the
\* generation it read, and leaves the generation as it is.
C32_MismatchSkipsRecover ==
  [][\A r \in Requests :
       /\ DetectsMismatch(r) =>
            /\ rq'[r].pc = "skipApply"
            /\ rq'[r].currentGen = generation
            /\ rq'[r].applies = rq[r].applies
            /\ rq'[r].initGen = rq[r].initGen
       /\ StepsFrom(r, "skipApply") =>
            /\ rq'[r].pc = "skipInApply"
            /\ rq'[r].applies = rq[r].applies + 1
            /\ rq'[r].initGen = rq[r].initGen
       /\ StepsFrom(r, "skipInApply") =>
            /\ rq'[r].pc = "send"
            /\ rq'[r].applies = rq[r].applies
            /\ rq'[r].initGen = rq[r].currentGen
       /\ (DetectsMismatch(r) \/ StepsFrom(r, "skipApply")
             \/ StepsFrom(r, "skipInApply")) =>
            /\ rq'[r].recovers = rq[r].recovers
            /\ recoverCalls' = recoverCalls
            /\ generation' = generation]_vars

\* A request whose first hook found the generation advanced is about to send its
\* retry: it has not invoked Recover and its baseline is the generation it read
C32_Witness ==
  \E r \in Requests :
    /\ rq[r].pc = "send"
    /\ rq[r].firstHook = "skipped"
    /\ rq[r].recovers = 0
    /\ rq[r].applies > 1
    /\ rq[r].initGen > rq[r].herdGen


\* C33: interceptorStore.recover(genBefore) tests the generation again once it
\* holds s.mu exclusively: if the generation differs from genBefore it returns
\* nil without invoking Interceptor.Recover and leaves the generation and the
\* lock as they were; only if they are equal does it invoke Interceptor.Recover,
\* once, holding s.mu until Recover returns.
C33_RecoverRetests ==
  [][\A r \in Requests :
       /\ StepsFrom(r, "recover") =>
            /\ CanLock(mu)
            /\ generation' = generation
            /\ IF generation # rq[r].currentGen
                 THEN /\ rq'[r].pc = "recApply"
                      /\ rq'[r].recoverErr = "nil"
                      /\ rq'[r].recovers = rq[r].recovers
                      /\ recoverCalls' = recoverCalls
                      /\ mu' = mu
                 ELSE /\ rq'[r].pc = "inRecover"
                      /\ rq'[r].recovers = rq[r].recovers + 1
                      /\ recoverCalls' = recoverCalls + 1
                      /\ mu'.writer = r
       /\ StepsFrom(r, "inRecover") =>
            /\ rq'[r].pc \in {"recApply", "send"}
            /\ rq'[r].recovers = rq[r].recovers
            /\ recoverCalls' = recoverCalls
            /\ mu'.writer = 0]_vars

\* A request has returned from recover without invoking Recover: the generation
\* had advanced between the hook's read and the lock
C33_Witness ==
  \E r \in Requests :
    /\ rq[r].pc = "recApply"
    /\ rq[r].recovers = 0
    /\ generation # rq[r].currentGen
    /\ recoverCalls > 0


\* C34: the baseline of a request is captured no later than the state it applies,
\* so that at every send attempt the baseline is not newer than the generation of
\* the state last applied to the request (the version of the state counts the
\* successful recoveries, as the generation does).
C34_BaselineNotNewerThanApplied ==
  \A r \in Requests :
    rq[r].pc = "send" => rq[r].initGen <= rq[r].applied


(***************************************************************************)
(* What justifies a retry, checked under DenySpec                          *)
(***************************************************************************)

\* C35: every retry of an intercepted request is justified.  A request gets from
\* one attempt to the next only through its hook, and the hook either invokes
\* Recover itself or has found the generation beyond the request's baseline;
\* the generation advances only when a Recover succeeds, and a hook that does
\* not fail leaves the baseline strictly higher and not below the request's own
\* recovery, so that each skip answers a successful recovery by another request;
\* a hook that finds the generation at the baseline performs the recovery itself.
C35_RetriesJustified ==
  /\ [](\A r \in Requests : rq[r].initGen <= generation)
  /\ [][/\ generation' # generation =>
             /\ generation' = generation + 1
             /\ \E q \in Requests : StepsFrom(q, "inRecover")
        /\ \A r \in Requests :
             /\ (rq'[r].pc = "send" /\ rq[r].pc # "send") =>
                  rq[r].pc \in {"irGetGen", "skipInApply", "inRecover", "recGetGen"}
             /\ StepsFrom(r, "skipInApply") =>
                  /\ rq[r].currentGen > rq[r].initGen
                  /\ rq'[r].initGen = rq[r].currentGen
             /\ StepsFrom(r, "recover") =>
                  \/ rq'[r].recovers = rq[r].recovers + 1
                  \/ generation > rq[r].initGen
             /\ StepsFrom(r, "recGetGen") =>
                  /\ rq'[r].initGen > rq[r].initGen
                  /\ rq'[r].initGen = generation
             /\ (StepsFrom(r, "hook") /\ generation = rq[r].initGen) =>
                  rq'[r].pc = "recover"
             /\ (StepsFrom(r, "recover") /\ generation = rq[r].initGen) =>
                  rq'[r].recovers = rq[r].recovers + 1]_vars

\* A request that skipped the recovery in its first hook was intercepted again
\* with no recovery in between and is performing the recovery itself
C35_Witness ==
  \E r \in Requests :
    /\ rq[r].firstHook = "skipped"
    /\ rq[r].pc = "inRecover"
    /\ rq[r].recovers = 1
    /\ rq[r].RetryAttempt = 2


(***************************************************************************)
(* The retry budget, checked under BudgetSpec                              *)
(***************************************************************************)

\* The budget the claim gives a request: MaxRetries() when positive, otherwise 1
ClaimedBudget == IF interceptorMaxRetries > 0 THEN interceptorMaxRetries ELSE 1

\* The requests whose retry count IR has set
BudgetSet ==
  {r \in Requests : rq[r].pc \notin {"start", "irInApply", "irMaxRetries"}}

\* C39: the retry budget of a request built by IR equals the interceptor's
\* MaxRetries() when that is positive and 1 when it is zero or negative, whatever
\* retry count the client gave the request: the request is retried at most that
\* often, and exactly that often when every attempt is intercepted.
C39_RetryBudget ==
  /\ \A r \in Requests \ BudgetSet : rq[r].retryCount = NewRequest.retryCount
  /\ \A r \in BudgetSet :
       /\ rq[r].retryCount = ClaimedBudget
       /\ rq[r].RetryAttempt <= ClaimedBudget
       /\ rq[r].attempts <= ClaimedBudget + 1
       /\ rq[r].pc = "done" =>
            /\ rq[r].RetryAttempt = ClaimedBudget
            /\ rq[r].attempts = ClaimedBudget + 1

\* With a negative MaxRetries() a request has been retried once and is over
C39_Witness ==
  \E r \in BudgetSet :
    /\ interceptorMaxRetries < 0
    /\ rq[r].pc = "done"
    /\ rq[r].attempts = ClaimedBudget + 1
    /\ rq[r].RetryAttempt = 1


(***************************************************************************)
(* No retries inside the coordinators, checked under CoordSpec             *)
(***************************************************************************)

\* C38: the coordinators never retry a failed action themselves.  One
\* getValidToken call invokes the credential source at most once and the
\* RefreshFunction at most once, and returns after either has failed; one
\* execution of the retry hook calls recover at most once, which invokes
\* Interceptor.Recover at most once and returns to the engine when it fails.
C38_NoInternalRetry ==
  /\ [](/\ \A c \in Callers : stats[c].gets <= 1 /\ stats[c].refreshes <= 1
        /\ \A r \in Requests : rq[r].recovers <= rq[r].RetryAttempt)
  /\ [][/\ \A c \in Callers :
             /\ (apc[c] = "inGet" /\ apc'[c] # "inGet") =>
                  apc'[c] \in {"refresh", "setToken"}
             /\ (apc[c] = "inRefresh" /\ apc'[c] # "inRefresh") =>
                  apc'[c] = "setToken"
             /\ (apc[c] = "setToken" /\ pending[c].err # "nil") =>
                  stats'[c] = stats[c]
        /\ \A r \in Requests :
             /\ rq'[r].recovers # rq[r].recovers =>
                  /\ StepsFrom(r, "recover")
                  /\ rq'[r].recovers = rq[r].recovers + 1
             /\ (rq'[r].pc = "recover" /\ rq[r].pc # "recover") =>
                  rq[r].pc = "hook"
             /\ (rq'[r].pc = "hook" /\ rq[r].pc # "hook") =>
                  /\ rq[r].pc = "sent"
                  /\ rq'[r].RetryAttempt = rq[r].RetryAttempt + 1
             /\ StepsFrom(r, "inRecover") =>
                  rq'[r].pc \in {"recApply", "send"}]_vars

\* A Recover has failed and its request is back with the engine, having invoked
\* Recover once in its one hook execution
C38_Witness ==
  \E r \in Requests :
    /\ rq[r].pc = "send"
    /\ rq[r].recoverErr = "ErrRecover"
    /\ rq[r].RetryAttempt = 1
    /\ rq[r].recovers = 1
====
